---- MODULE Spec2Model ----
(***************************************************************************)
(* Model of the Sandboxed Execution Controller                             *)
(* (rs/canister_sandbox/replica_controller/src/                            *)
(*  sandboxed_execution_controller.rs).                                    *)
(*                                                                         *)
(* Arc/Weak reference counts are explicit: strong[w] is the strong count   *)
(* of the Arc<SandboxProcess> of worker w, memRefs[m] the strong count of  *)
(* the Arc<OpenedMemory> that wraps memory id m.  A Weak reference is the  *)
(* worker's number; Weak::upgrade succeeds iff strong[w] > 0.  The Drop    *)
(* impls run when a count reaches zero and send their request.             *)
(*                                                                         *)
(* Identifiers (workers, memory ids, wasm ids, execution ids) are unique   *)
(* among the identifiers the state still mentions: a new one is the least  *)
(* number that nothing in the state refers to.  The requests sent by a     *)
(* step are kept, in order, in the variable sent until the next step.      *)
(***************************************************************************)
EXTENDS Naturals, FiniteSets, Sequences, TLC

\* ------------------------------------------------------------------ bounds
NumPages == 2        \* pages of a page map
MaxContent == 2      \* page contents 1..MaxContent, 0 = page not in the delta
MaxCalls == 2        \* calls of process and create_execution_state in a behaviour

\* --------------------------------------------------------- program constant
\* SANDBOX_PROCESS_INACTIVE_TIME_BEFORE_EVICTION, in seconds
TIdle == 0

\* A positive eviction threshold, for the builds that set one.
TWarm == 1

\* How many socket addresses there are, and how many the DNS seeds resolve to.
MaxAddr == 3
MaxSeeds == 2

\* How many distinct leading entries an addr message has at most, where
\* add_many is examined on its own.
MaxMsg == 2

\* How many entries an addr message has at most, where add_many runs among
\* the other operations of the book.
MaxGossip == 1

MAX_ADDR_MESSAGE_SIZE == 1000

\* Two caller threads; a WasmBinary object per thread is enough, since a
\* thread that needs a new one holds none.
Threads == {1, 2}
Binaries == Threads
Canisters == {"c1", "c2"}
Pages == 1..NumPages
\* Enough numbers for everything two callers can refer to at once.
Workers == 1..(2 * Cardinality(Threads) + 1)
WasmIds == 1..(2 * Cardinality(Threads))
ExecIds == 1..Cardinality(Threads)
MemIds == 1..(4 * Cardinality(Threads))

VARIABLES
  backends,    \* HashMap<CanisterId, Backend>: the set of its entries [c, slot]
  tIdle,       \* SANDBOX_PROCESS_INACTIVE_TIME_BEFORE_EVICTION of the build, seconds
  calls,       \* calls of process and create_execution_state made so far
  strong,      \* Arc<SandboxProcess> strong count per worker
  term,        \* Terminate requests sent to a worker
  proc,        \* the child process of a worker: running, or exited with a status
  memWorker,   \* OpenedMemory.sandbox_process per memory id (0 = no OpenedMemory)
  memRefs,     \* Arc<OpenedMemory> strong count per memory id
  sent,        \* the requests sent and metrics published by the last step, in order
  remote,      \* history: per worker, the wasm and memory ids its stream has opened
  served,      \* history: the workers a process call has run on and returned from
  lastOpen,    \* history: worker and id of the last successful open_wasm per binary
  cache,       \* WasmBinary.embedder_cache per binary: the OpenedWasm or NoCache
  binValid,    \* whether the bytes of a WasmBinary compile
  es,          \* the ExecutionState each caller thread owns (NoState = none)
  call,        \* per caller thread: the locals of its process / create call
  active,      \* SandboxProcess.execution_states per worker: {[id, t]}
  started,     \* StartExecution requests the sandbox has not answered yet
  subnetAvail, \* the shared subnet-available-memory cell
  sweeperPc,   \* "sleep" | "probe": position of the eviction thread
  sweepList,   \* the Vec<Arc<SandboxProcess>> scavenge returned
  panicked,    \* "" or the assertion that failed
  panicMsg,    \* the message of panic_due_to_sandbox_exit, NoMessage if none
  \* ---- the bitcoin adapter's AddressBook
  network,          \* config.network
  knownAddresses,   \* known_addresses: HashSet<SocketAddr>
  activeAddresses,  \* active_addresses: HashSet<SocketAddr>
  seedQueue,        \* seed_queue: VecDeque<SocketAddr>
  bookRet,          \* what the last call of the book returned
  seedRun           \* the queue before, and the seeds returned by, the last pop_seeds

vars == <<backends, tIdle, calls, strong, term, proc, memWorker, memRefs, sent,
          remote, served, lastOpen, cache, binValid, es, call, active, started, subnetAvail,
          sweeperPc, sweepList, panicked, panicMsg,
          network, knownAddresses, activeAddresses, seedQueue, bookRet, seedRun>>

\* The address book, which no step of the controller touches.
bookVars == <<network, knownAddresses, activeAddresses, seedQueue, bookRet, seedRun>>

\* The controller, which no step of the address book touches.
controllerVars ==
  <<backends, tIdle, calls, strong, term, proc, memWorker, memRefs, sent, remote,
    served, lastOpen, cache, binValid, es, call, active, started, subnetAvail, sweeperPc,
    sweepList, panicked, panicMsg>>

\* What no step of a caller or of the sweeper changes.
restVars == <<tIdle, panicMsg, bookVars>>

\* ------------------------------------------------------------------ values
\* Option<i32>
None == [some |-> FALSE, v |-> 0]
Some(n) == [some |-> TRUE, v |-> n]

\* The child process of a worker spawned for canister c, before it exits.
Running(c) == [st |-> "running", canister |-> c, code |-> None, signal |-> None]

NoMessage == [canister |-> "", pid |-> 0, cause |-> "", n |-> 0]

Absent == [tag |-> "Absent", w |-> 0, age |-> 0]
Empty == [tag |-> "Empty", w |-> 0, age |-> 0]
Active(w, age) == [tag |-> "Active", w |-> w, age |-> age]
Evicted(w) == [tag |-> "Evicted", w |-> w, age |-> 0]

\* An entry of the backends map.
Entry(c, slot) == [c |-> c, slot |-> slot]

\* HashMap::get / get_mut: the backend stored under c; Absent if there is none.
Lookup(B, c) ==
  IF \E e \in B : e.c = c THEN (CHOOSE e \in B : e.c = c).slot ELSE Absent

\* *backend = new: the backend of an existing entry is overwritten in place.
Replace(B, c, slot) == {IF e.c = c THEN Entry(c, slot) ELSE e : e \in B}

\* An insert that keeps the entry the key had.
HashMapInsert_KeepOld(B, c, slot) == B \cup {Entry(c, slot)}

\* HashMap::insert: the entry of the key, if any, is replaced.
HashMapInsert(B, c, slot) == {e \in B : e.c # c} \cup {Entry(c, slot)}

NoCache == [w |-> 0, id |-> 0]

EmptyPM == [p \in Pages |-> 0]
\* Memory::default(): empty page map, size 0, SandboxMemory::Unsynced (sb = 0)
DefaultMemory == [pm |-> EmptyPM, size |-> 0, sb |-> 0]
NoState == [bin |-> 0, wmem |-> DefaultMemory, smem |-> DefaultMemory, globals |-> 0]

\* An execution output. ok: wasm_result.is_ok(); hasState: state.is_some();
\* err: the error carried by wasm_result; instr: num_instructions_left;
\* ssc: system_state_changes (0 = default); sam: subnet_available_memory.
NoReply == [kind |-> "none", ok |-> FALSE, err |-> "", hasState |-> FALSE,
            wdelta |-> EmptyPM, wsize |-> 0, sdelta |-> EmptyPM, ssize |-> 0,
            globals |-> 0, sam |-> 0, ssc |-> 0, instr |-> 0,
            accessed |-> 0, dirty |-> 0]

\* StartExecutionRequest: the ids it names
NoRequest == [id |-> 0, w |-> 0, wasmId |-> 0, wmem |-> 0, smem |-> 0, nextW |-> 0,
              nextS |-> 0]

IdleCall == [pc |-> "idle", op |-> "", c |-> "", w |-> 0, bin |-> 0, wasmId |-> 0,
             compileCount |-> 0, execId |-> 0, wmh |-> 0, smh |-> 0,
             nextW |-> 0, nextS |-> 0, req |-> NoRequest, input |-> NoState,
             out |-> NoReply, ssc |-> 0,
             nSpawn |-> 0, nOpenWasm |-> 0, nOpenMem |-> 0, nStart |-> 0]

\* ------------------------------------------------- reference counts (Arc)
\* The part of the state the Drop impls and constructors act on, with the
\* requests sent and the memory ids minted so far in the step.
Heap == [strong |-> strong, term |-> term, proc |-> proc, memWorker |-> memWorker,
         memRefs |-> memRefs, sent |-> <<>>, minted |-> {}]

\* What the requests sent to a worker have made known to it and not closed:
\* the wasm ids whose OpenWasm was acknowledged, and the memory ids that an
\* OpenMemory carried or that a StartExecution or CreateExecutionState named
\* as a next memory id.
NothingOpen == [wasm |-> {}, mem |-> {}]

\* The effect of one entry of a step's log on what is open on the workers.
Deliver1(R, e) ==
  CASE e.kind = "spawn" -> [R EXCEPT ![e.w] = NothingOpen]
    [] e.kind = "Terminate" -> [R EXCEPT ![e.w] = NothingOpen]
    [] e.kind = "OpenWasm acknowledged" -> [R EXCEPT ![e.w].wasm = @ \cup {e.id}]
    [] e.kind = "CloseWasm" -> [R EXCEPT ![e.w].wasm = @ \ {e.id}]
    [] e.kind \in {"OpenMemory", "CreateExecutionState", "next_wasm_memory_id",
                   "next_stable_memory_id"} ->
         [R EXCEPT ![e.w].mem = @ \cup {e.id}]
    [] e.kind = "CloseMemory" -> [R EXCEPT ![e.w].mem = @ \ {e.id}]
    [] OTHER -> R

\* The effect of a step's log, entry by entry in the order of the log.
RECURSIVE Deliver(_, _)
Deliver(R, q) == IF q = <<>> THEN R ELSE Deliver(Deliver1(R, Head(q)), Tail(q))

SetHeap(H) ==
  /\ strong' = H.strong
  /\ term' = H.term
  /\ proc' = H.proc
  /\ memWorker' = H.memWorker
  /\ memRefs' = H.memRefs
  /\ sent' = H.sent
  /\ remote' = Deliver(remote, H.sent)

\* A request on the RPC stream of worker w.
Send(H, kind, w, id) ==
  [H EXCEPT !.sent = Append(@, [kind |-> kind, w |-> w, id |-> id])]

\* self.backends.lock(): the registry mutex is taken; the step's log notes it.
LockBackends(H) == Send(H, "lock backends", 0, 0)

\* The guard of the registry mutex goes out of scope.
UnlockBackends(H) == Send(H, "unlock backends", 0, 0)

\* Weak<SandboxProcess>::upgrade().is_some()
Upgrades(H, w) == w # 0 /\ H.strong[w] > 0

\* Arc::clone(&sandbox_process)
CloneArc(H, w) == [H EXCEPT !.strong[w] = @ + 1]

\* A drop of an Arc<SandboxProcess> that runs Drop for SandboxProcess every
\* time.
DropArc_EveryDrop(H, w) ==
  IF w = 0 THEN H
  ELSE Send([H EXCEPT !.strong[w] = @ - 1, !.term[w] = 1], "Terminate", w, 0)

\* Dropping one Arc<SandboxProcess>; the last one runs Drop for SandboxProcess,
\* which sends Terminate.
DropArc(H, w) ==
  IF w = 0 THEN H
  ELSE IF H.strong[w] = 1
       THEN Send([H EXCEPT !.strong[w] = 0, !.term[w] = @ + 1], "Terminate", w, 0)
       ELSE [H EXCEPT !.strong[w] = @ - 1]

\* Dropping one SandboxMemoryHandle (an Arc<OpenedMemory>); the last one runs
\* Drop for OpenedMemory, which sends CloseMemory and then drops its Arc of
\* the worker.
\* A drop of the last handle that lets go of the worker before it sends
\* CloseMemory.
DropMemHandle_ArcFirst(H, m) ==
  IF m = 0 THEN H
  ELSE IF H.memRefs[m] = 1
       THEN Send(DropArc([H EXCEPT !.memRefs[m] = 0, !.memWorker[m] = 0],
                         H.memWorker[m]),
                 "CloseMemory", H.memWorker[m], m)
       ELSE [H EXCEPT !.memRefs[m] = @ - 1]

DropMemHandle(H, m) ==
  IF m = 0 THEN H
  ELSE IF H.memRefs[m] = 1
       THEN DropArc(Send([H EXCEPT !.memRefs[m] = 0, !.memWorker[m] = 0],
                         "CloseMemory", H.memWorker[m], m),
                    H.memWorker[m])
       ELSE [H EXCEPT !.memRefs[m] = @ - 1]

\* Drop for OpenedWasm that sends CloseWasm without upgrading.
DropOpenedWasmSend_Always(H, oc) == Send(H, "CloseWasm", oc.w, oc.id)

\* Drop for OpenedWasm: CloseWasm is sent only if the weak reference upgrades.
DropOpenedWasmSend(H, oc) ==
  IF Upgrades(H, oc.w) THEN Send(H, "CloseWasm", oc.w, oc.id) ELSE H

\* The drop of an OpenedWasm, preceded in sent by a note (not a request) of
\* whether its worker was alive when it was dropped.
DropOpenedWasm(H, oc) ==
  IF oc = NoCache THEN H
  ELSE DropOpenedWasmSend(
         Send(H, IF H.strong[oc.w] > 0 THEN "drop wasm, alive" ELSE "drop wasm, dead",
              oc.w, oc.id),
         oc)

\* wrap_remote_memory that keeps no Arc of the worker.
WrapRemoteMemory_NoClone(H, w, m) ==
  [H EXCEPT !.memWorker[m] = w, !.memRefs[m] = 1]

\* wrap_remote_memory: a new OpenedMemory holding a clone of the worker's Arc,
\* in a new Arc (SandboxMemoryHandle).
WrapRemoteMemory(H, w, m) ==
  [CloneArc(H, w) EXCEPT !.memWorker[m] = w, !.memRefs[m] = 1]

\* --------------------------------------------------------------- identifiers
\* The least number of S; 0 if S is empty.
Least(S) == IF S = {} THEN 0 ELSE CHOOSE x \in S : \A y \in S : x <= y

CallMemIds(c) ==
  {c.wmh, c.smh, c.nextW, c.nextS, c.input.wmem.sb, c.input.smem.sb,
   c.req.wmem, c.req.smem, c.req.nextW, c.req.nextS}

\* The memory ids the state mentions.
MemInUse ==
  UNION {{es[t].wmem.sb, es[t].smem.sb} \cup CallMemIds(call[t]) : t \in Threads}
  \cup {m \in MemIds : memRefs[m] > 0}

\* MemoryId::new(): an id nothing refers to.
MintMemId(H) ==
  LET m == Least(MemIds \ (MemInUse \cup H.minted))
  IN [H |-> [H EXCEPT !.minted = @ \cup {m}], id |-> m]

\* The wasm ids the state mentions.
WasmInUse ==
  {cache[b].id : b \in Binaries} \cup {lastOpen[b].id : b \in Binaries}
  \cup {call[t].wasmId : t \in Threads} \cup {call[t].req.wasmId : t \in Threads}

\* WasmId::new()
NewWasmId == Least(WasmIds \ WasmInUse)

\* The execution ids the state mentions.
ExecInUse ==
  {call[t].execId : t \in Threads} \cup {call[t].req.id : t \in Threads}
  \cup {e.id : e \in started} \cup UNION {{a.id : a \in active[w]} : w \in Workers}

\* ActiveExecutionStateRegistry::register_execution: a new execution id
NewExecId == Least(ExecIds \ ExecInUse)

\* The workers the state mentions, by a strong or a weak reference.
WorkersInUse ==
  {w \in Workers : strong[w] > 0}
  \cup {e.slot.w : e \in backends}
  \cup {cache[b].w : b \in Binaries} \cup {lastOpen[b].w : b \in Binaries}
  \cup {call[t].w : t \in Threads} \cup {call[t].req.w : t \in Threads}
  \cup {memWorker[m] : m \in MemIds}
  \cup {sweepList[i] : i \in 1..Len(sweepList)}

\* The SandboxProcess that create_sandbox_process and Arc::new make.
NewWorker == Least(Workers \ WorkersInUse)

\* ---------------------------------------------------------------- registry
\* get_sandbox_process that does not upgrade an evicted backend.
FindSandboxProcess_NoUpgrade(H, slot) ==
  IF slot.tag = "Active" THEN slot.w ELSE 0

\* get_sandbox_process, the match on the old backend: the worker found, or 0.
FindSandboxProcess(H, slot) ==
  CASE slot.tag = "Active" -> slot.w
    [] slot.tag = "Evicted" -> IF Upgrades(H, slot.w) THEN slot.w ELSE 0
    [] OTHER -> 0

\* A refresh that evicts whatever the threshold.
RefreshedBackend_Evicted(w) == Evicted(w)

\* A refresh that keeps the strong reference whatever the threshold.
RefreshedBackend_Active(w) == Active(w, 0)

\* A refresh that leaves the slot as std::mem::replace left it.
RefreshedBackend_Empty(w) == Empty

\* get_sandbox_process: the slot written back when a worker was found.
RefreshedBackend(w) == IF tIdle > 0 THEN Active(w, 0) ELSE Evicted(w)

\* Number of Arcs a slot holds.
SlotStrong(slot, w) == IF slot.tag = "Active" /\ slot.w = w THEN 1 ELSE 0

\* create_sandbox_process(controller_service, canister_id, argv): the child
\* process of worker w is started.
CreateSandboxProcess(H, w, c) ==
  Send([H EXCEPT !.proc[w] = Running(c)], "spawn", w, 0)

\* get_sandbox_process(c). Result: the worker returned (the caller's Arc), the
\* new slot, the new map, the new heap and whether a process was spawned.
\* The guard is taken on entry and lives until the function returns, on both
\* paths.
GetSandboxProcess(H, c) ==
  LET slot == Lookup(backends, c)
      found == FindSandboxProcess(H, slot)
      H0 == LockBackends(H)
  IN IF found # 0
     THEN LET new == RefreshedBackend(found)
              \* the caller's Arc plus the slot's, minus what the slot held
              gain == 1 + SlotStrong(new, found) - SlotStrong(slot, found)
          IN [w |-> found, slot |-> new, spawn |-> FALSE,
              B |-> Replace(backends, c, new),
              H |-> UnlockBackends([H0 EXCEPT !.strong[found] = @ + gain])]
     ELSE LET w == NewWorker
              H1 == CreateSandboxProcess(H0, w, c)
          IN [w |-> w, slot |-> Active(w, 0), spawn |-> TRUE,
              B |-> HashMapInsert(backends, c, Active(w, 0)),
              H |-> UnlockBackends([H1 EXCEPT !.strong[w] = 2, !.term[w] = 0])]

\* ------------------------------------------------------------------- Init
\* What the calls of the AddressBook return: Ok(()), Ok(AddressEntry) or Err.
NoRet ==
  [op |-> "", ok |-> TRUE, kind |-> "", addr |-> 0, err |-> "",
   sender |-> 0, msg |-> <<>>, pad |-> 0]
RetOk(op) == [NoRet EXCEPT !.op = op]
RetEntry(op, kind, addr) == [NoRet EXCEPT !.op = op, !.kind = kind, !.addr = addr]
\* A call that takes an entry and returns nothing is recorded with the entry it
\* was given.
RetGiven(op, kind, addr) == RetEntry(op, kind, addr)
\* An add_many is recorded with its result r and with the sender and the
\* message it was given.
RetAddMany(r, sender, msg, pad) ==
  [r EXCEPT !.sender = sender, !.msg = msg, !.pad = pad]
RetErr(op, err) == [NoRet EXCEPT !.op = op, !.ok = FALSE, !.err = err]

\* A process that runs the controller holds no address book.
NoBook ==
  /\ network = ""
  /\ knownAddresses = {}
  /\ activeAddresses = {}
  /\ seedQueue = <<>>
  /\ bookRet = NoRet
  /\ seedRun = [start |-> <<>>, got |-> <<>>]

ControllerInit(T) ==
  /\ backends = {}
  /\ tIdle = T
  /\ calls = 0
  /\ strong = [w \in Workers |-> 0]
  /\ term = [w \in Workers |-> 0]
  /\ proc = [w \in Workers |-> Running("")]
  /\ memWorker = [m \in MemIds |-> 0]
  /\ memRefs = [m \in MemIds |-> 0]
  /\ sent = <<>>
  /\ remote = [w \in Workers |-> NothingOpen]
  /\ served = {}
  /\ lastOpen = [b \in Binaries |-> NoCache]
  /\ cache = [b \in Binaries |-> NoCache]
  /\ binValid = [b \in Binaries |-> TRUE]
  /\ es = [t \in Threads |-> NoState]
  /\ call = [t \in Threads |-> IdleCall]
  /\ active = [w \in Workers |-> {}]
  /\ started = {}
  /\ subnetAvail = 0
  /\ sweeperPc = "sleep"
  /\ sweepList = <<>>
  /\ panicked = ""
  /\ panicMsg = NoMessage

InitWith(T) == ControllerInit(T) /\ NoBook

Init == InitWith(TIdle)

\* ----------------------------------------------------------- caller helpers
\* Arc<WasmBinary> references: the execution states that hold the binary and
\* the create_execution_state calls that hold it as a local.
BinRefs(b) ==
  Cardinality({t \in Threads : es[t].bin = b})
  + Cardinality({t \in Threads : /\ call[t].op = "create"
                                 /\ call[t].pc \in {"acquired", "opened"}
                                 /\ call[t].bin = b})

\* The WasmBinary object that WasmBinary::new makes: one nothing refers to.
NewBinary == Least({b \in Binaries : BinRefs(b) = 0})

\* PageMap::deserialize_delta: the pages of the delta replace the local ones.
Merge(pm, delta) == [p \in Pages |-> IF delta[p] # 0 THEN delta[p] ELSE pm[p]]

\* ------------------------------------------------------------ caller: state
\* The caller obtains an execution state whose memories are not yet known to
\* any sandbox (clean page maps, SandboxMemory::Unsynced), for a new
\* WasmBinary or for one that another execution state already holds.
LoadState(t, b, valid) ==
  /\ panicked = ""
  /\ call[t].pc = "idle"
  /\ es[t] = NoState
  /\ IF BinRefs(b) = 0
     THEN /\ b = NewBinary
          /\ binValid' = [binValid EXCEPT ![b] = valid]
     ELSE /\ \E u \in Threads : es[u].bin = b
          /\ valid = binValid[b]
          /\ UNCHANGED binValid
  /\ es' = [es EXCEPT ![t] = [NoState EXCEPT !.bin = b]]
  /\ SetHeap(Heap)
  /\ UNCHANGED <<restVars, calls, served, backends, lastOpen, cache, call,
                 active, started, subnetAvail, sweeperPc, sweepList, panicked>>

\* Dropping the WasmBinary reference of an execution state: the last reference
\* drops the embedder cache and with it the OpenedWasm.
\* A drop of a binary that closes the module though other states share it.
DropBinary_Always(H, b) == DropOpenedWasm(H, cache[b])

DropBinary(H, b) == IF BinRefs(b) = 1 THEN DropOpenedWasm(H, cache[b]) ELSE H

\* Dropping the two memories of an execution state.
DropMemories(H, s) == DropMemHandle(DropMemHandle(H, s.wmem.sb), s.smem.sb)

\* The caller drops its execution state. The order in which the fields of
\* ExecutionState are dropped is not fixed by this file: both orders.
DropState(t, binaryFirst) ==
  /\ panicked = ""
  /\ call[t].pc = "idle"
  /\ es[t] # NoState
  /\ LET s == es[t]
         H == IF binaryFirst
              THEN DropMemories(DropBinary(Heap, s.bin), s)
              ELSE DropBinary(DropMemories(Heap, s), s.bin)
     IN /\ SetHeap(H)
        /\ IF BinRefs(s.bin) = 1
           THEN /\ cache' = [cache EXCEPT ![s.bin] = NoCache]
                /\ lastOpen' = [lastOpen EXCEPT ![s.bin] = NoCache]
                /\ binValid' = [binValid EXCEPT ![s.bin] = TRUE]
           ELSE UNCHANGED <<cache, lastOpen, binValid>>
  /\ es' = [es EXCEPT ![t] = NoState]
  /\ UNCHANGED <<restVars, calls, served, backends, call, active, started,
                 subnetAvail, sweeperPc, sweepList, panicked>>

\* The drop of an execution state seen at a finer grain, for the case that the
\* memories are dropped before the binary and the binary's OpenedWasm is
\* dropped with them: Drop for OpenedWasm has upgraded its weak reference and
\* holds the Arc in a local of the dropping thread.
DropStateUpgrade(t) ==
  /\ panicked = ""
  /\ call[t].pc = "idle"
  /\ es[t] # NoState
  /\ BinRefs(es[t].bin) = 1
  /\ cache[es[t].bin] # NoCache
  /\ LET s == es[t]
         oc == cache[s.bin]
         H == DropMemories(Heap, s)
     IN /\ Upgrades(H, oc.w)
        /\ SetHeap(CloneArc(H, oc.w))
        /\ call' = [call EXCEPT ![t] =
                      [IdleCall EXCEPT !.pc = "dropping", !.w = oc.w,
                                       !.wasmId = oc.id]]
        /\ cache' = [cache EXCEPT ![s.bin] = NoCache]
        /\ lastOpen' = [lastOpen EXCEPT ![s.bin] = NoCache]
        /\ binValid' = [binValid EXCEPT ![s.bin] = TRUE]
  /\ es' = [es EXCEPT ![t] = NoState]
  /\ UNCHANGED <<restVars, calls, served, backends, active, started,
                 subnetAvail, sweeperPc, sweepList, panicked>>

\* Drop for OpenedWasm, the rest: close_wasm is sent and the upgraded Arc goes
\* out of scope.
DropStateFinish(t) ==
  /\ panicked = ""
  /\ call[t].pc = "dropping"
  /\ SetHeap(DropArc(Send(Heap, "CloseWasm", call[t].w, call[t].wasmId),
                     call[t].w))
  /\ call' = [call EXCEPT ![t] = IdleCall]
  /\ UNCHANGED <<restVars, calls, served, backends, lastOpen, cache, binValid,
                 es, active, started, subnetAvail, sweeperPc, sweepList,
                 panicked>>

\* -------------------------------------------------- process: first statement
\* process(): let sandbox_process = self.get_sandbox_process(canister_id)
StartProcess(t, c) ==
  /\ panicked = ""
  /\ calls < MaxCalls
  /\ calls' = calls + 1
  /\ call[t].pc = "idle"
  /\ es[t] # NoState
  /\ LET g == GetSandboxProcess(Heap, c)
     IN /\ g.w # 0
        /\ backends' = g.B
        /\ SetHeap(g.H)
        /\ active' = IF g.spawn THEN [active EXCEPT ![g.w] = {}] ELSE active
        /\ served' = IF g.spawn THEN served \ {g.w} ELSE served
        /\ call' = [call EXCEPT ![t] =
                      [IdleCall EXCEPT !.pc = "acquired", !.op = "process", !.c = c,
                                       !.w = g.w, !.bin = es[t].bin, !.input = es[t],
                                       !.nSpawn = IF g.spawn THEN 1 ELSE 0]]
  /\ UNCHANGED <<restVars, lastOpen, cache, binValid, es, started, subnetAvail,
                 sweeperPc, sweepList, panicked>>

\* create_execution_state(): get_sandbox_process, then WasmBinary::new, a new
\* binary object with an empty embedder cache.
StartCreate(t, c, valid) ==
  /\ panicked = ""
  /\ calls < MaxCalls
  /\ calls' = calls + 1
  /\ call[t].pc = "idle"
  /\ es[t] = NoState
  /\ LET g == GetSandboxProcess(Heap, c)
         b == NewBinary
     IN /\ g.w # 0
        /\ binValid' = [binValid EXCEPT ![b] = valid]
        /\ backends' = g.B
        /\ SetHeap(g.H)
        /\ active' = IF g.spawn THEN [active EXCEPT ![g.w] = {}] ELSE active
        /\ served' = IF g.spawn THEN served \ {g.w} ELSE served
        /\ call' = [call EXCEPT ![t] =
                      [IdleCall EXCEPT !.pc = "acquired", !.op = "create", !.c = c,
                                       !.w = g.w, !.bin = b,
                                       !.nSpawn = IF g.spawn THEN 1 ELSE 0]]
  /\ UNCHANGED <<restVars, lastOpen, cache, es, started, subnetAvail, sweeperPc,
                 sweepList, panicked>>

\* ---------------------------------------------------------------- open_wasm
\* open_wasm that never finds the cached OpenedWasm.
CacheHit_Never(H, oc) == FALSE

\* A cache test with the upgrade inverted: only a dead worker's handle hits.
CacheHit_Inverted(H, oc) == oc # NoCache /\ ~Upgrades(H, oc.w)

\* open_wasm: the cache holds an OpenedWasm whose weak reference upgrades.
CacheHit(H, oc) == oc # NoCache /\ Upgrades(H, oc.w)

\* An error output that reports instructions left.
CompileErrorOutput_InstructionsLeft ==
  [NoReply EXCEPT !.kind = "exec", !.err = "compile", !.instr = 1]

\* The output process() builds when open_wasm fails.
CompileErrorOutput == [NoReply EXCEPT !.kind = "exec", !.err = "compile"]

\* open_wasm(&sandbox_process, wasm_binary), and the early returns of its
\* callers when it fails.
OpenWasm(t) ==
  /\ panicked = ""
  /\ call[t].pc = "acquired"
  /\ CacheHit(Heap, cache[call[t].bin]) \/ proc[call[t].w].st = "running"
  /\ LET c == call[t]
         oc == cache[c.bin]
         id == NewWasmId
         H0 == Send(Heap, "OpenWasm", c.w, id)
     IN IF CacheHit(Heap, oc)
        THEN IF oc.w # c.w
             THEN \* assert!(Arc::ptr_eq(&cached_sandbox_process, sandbox_process))
                  /\ panicked' = "open_wasm: cached worker differs"
                  /\ SetHeap(Heap)
                  /\ UNCHANGED <<lastOpen, cache, binValid, call>>
             ELSE /\ call' = [call EXCEPT ![t].pc = "opened", ![t].wasmId = oc.id,
                                          ![t].compileCount = 0]
                  /\ lastOpen' = [lastOpen EXCEPT ![c.bin] = [w |-> c.w, id |-> oc.id]]
                  /\ SetHeap(Heap)
                  /\ UNCHANGED <<cache, binValid, panicked>>
        ELSE /\ id # 0
             /\ IF binValid[c.bin]
                THEN \* the request is acknowledged; the new OpenedWasm replaces
                     \* (and drops) what the cache held
                     /\ SetHeap(DropOpenedWasm(
                                  Send(H0, "OpenWasm acknowledged", c.w, id), oc))
                     /\ cache' = [cache EXCEPT ![c.bin] = [w |-> c.w, id |-> id]]
                     /\ lastOpen' = [lastOpen EXCEPT ![c.bin] = [w |-> c.w, id |-> id]]
                     /\ call' = [call EXCEPT ![t].pc = "opened", ![t].wasmId = id,
                                             ![t].compileCount = 1,
                                             ![t].nOpenWasm = @ + 1]
                     /\ UNCHANGED <<binValid, panicked>>
                ELSE \* compilation error: the caller returns at once
                     /\ IF c.op = "process"
                        THEN /\ SetHeap(DropArc(H0, c.w))
                             /\ UNCHANGED <<cache, lastOpen, binValid>>
                        ELSE /\ SetHeap(DropArc(DropBinary(H0, c.bin), c.w))
                             /\ cache' = [cache EXCEPT ![c.bin] = NoCache]
                             /\ lastOpen' = [lastOpen EXCEPT ![c.bin] = NoCache]
                             /\ binValid' = [binValid EXCEPT ![c.bin] = TRUE]
                     /\ call' = [call EXCEPT ![t].pc = "returned",
                                             ![t].out = CompileErrorOutput,
                                             ![t].nOpenWasm = @ + 1,
                                             ![t].ssc = 0]
                     /\ UNCHANGED panicked
  /\ UNCHANGED <<restVars, calls, served, backends, es, active, started,
                 subnetAvail, sweeperPc, sweepList>>

\* An open_remote_memory that sends OpenMemory twice for an unsynced memory.
OpenRemoteMemory_SendTwice(H, w, mem) ==
  IF mem.sb # 0
  THEN [H |-> [H EXCEPT !.memRefs[mem.sb] = @ + 1], mem |-> mem, handle |-> mem.sb,
        sent |-> 0, panic |-> FALSE]
  ELSE IF mem.pm # EmptyPM
       THEN [H |-> H, mem |-> mem, handle |-> 0, sent |-> 0, panic |-> TRUE]
       ELSE LET n == MintMemId(H)
                H1 == Send(Send(n.H, "OpenMemory", w, n.id), "OpenMemory", w, n.id)
                H2 == WrapRemoteMemory(H1, w, n.id)
                H3 == [H2 EXCEPT !.memRefs[n.id] = @ + 1]
            IN [H |-> H3, mem |-> [mem EXCEPT !.sb = n.id], handle |-> n.id,
                sent |-> 2, panic |-> FALSE]

\* An open that sends OpenMemory and returns the handle, but leaves the
\* binding of the memory Unsynced.
OpenRemoteMemory_NoBind(H, w, mem) ==
  IF mem.sb # 0
  THEN [H |-> [H EXCEPT !.memRefs[mem.sb] = @ + 1], mem |-> mem, handle |-> mem.sb,
        sent |-> 0, panic |-> FALSE]
  ELSE IF mem.pm # EmptyPM
       THEN [H |-> H, mem |-> mem, handle |-> 0, sent |-> 0, panic |-> TRUE]
       ELSE LET n == MintMemId(H)
                H1 == Send(n.H, "OpenMemory", w, n.id)
                H2 == WrapRemoteMemory(H1, w, n.id)
            IN [H |-> H2, mem |-> mem, handle |-> n.id,
                sent |-> 1, panic |-> FALSE]

\* ------------------------------------------------------- open_remote_memory
\* open_remote_memory(&sandbox_process, memory): the handle returned, the
\* memory with its binding, the requests sent, and whether an assertion failed.
OpenRemoteMemory(H, w, mem) ==
  IF mem.sb # 0
  THEN \* SandboxMemory::Synced(id) => id.clone()
       [H |-> [H EXCEPT !.memRefs[mem.sb] = @ + 1], mem |-> mem, handle |-> mem.sb,
        sent |-> 0, panic |-> FALSE]
  ELSE IF mem.pm # EmptyPM
       THEN \* assert!(serialized_page_map.page_delta.is_empty())
            [H |-> H, mem |-> mem, handle |-> 0, sent |-> 0, panic |-> TRUE]
       ELSE LET n == MintMemId(H)
                H1 == Send(n.H, "OpenMemory", w, n.id)
                H2 == WrapRemoteMemory(H1, w, n.id)
                \* *guard = SandboxMemory::Synced(handle.clone())
                H3 == [H2 EXCEPT !.memRefs[n.id] = @ + 1]
            IN [H |-> H3, mem |-> [mem EXCEPT !.sb = n.id], handle |-> n.id,
                sent |-> 1, panic |-> FALSE]

\* A StartExecution request that names no next memory ids.
StartExecution_NoNextIds(H, w, id, nextW, nextS) ==
  Send(H, "StartExecution", w, id)

\* sandbox_service.start_execution(StartExecutionRequest): the request, and
\* the two fresh ids it names as next_wasm_memory_id and
\* next_stable_memory_id.
StartExecution(H, w, id, nextW, nextS) ==
  Send(Send(Send(H, "StartExecution", w, id), "next_wasm_memory_id", w, nextW),
       "next_stable_memory_id", w, nextS)

\* A registration that forgets the executions already in flight on the worker.
RegisterExecution_Alone(A, w, id, t) == [A EXCEPT ![w] = {[id |-> id, t |-> t]}]

\* sandbox_process.execution_states.register_execution(closure): the sender
\* of thread t's channel is stored under the fresh exec id.
RegisterExecution(A, w, id, t) == [A EXCEPT ![w] = @ \cup {[id |-> id, t |-> t]}]

\* process(), from register_execution to start_execution(..).on_completion.
Prepare(t) ==
  /\ panicked = ""
  /\ call[t].pc = "opened"
  /\ call[t].op = "process"
  /\ LET c == call[t]
         s == es[t]
         id == NewExecId
         r1 == OpenRemoteMemory(Heap, c.w, s.wmem)
         n1 == MintMemId(r1.H)
         r2 == OpenRemoteMemory(n1.H, c.w, s.smem)
         n2 == MintMemId(r2.H)
         req == [id |-> id, w |-> c.w, wasmId |-> c.wasmId, wmem |-> r1.handle,
                 smem |-> r2.handle, nextW |-> n1.id, nextS |-> n2.id]
     IN IF r1.panic \/ r2.panic
        THEN /\ panicked' = "open_remote_memory: unsynced memory is dirty"
             /\ SetHeap(Heap)
             /\ UNCHANGED <<es, call, active, started>>
        ELSE /\ id # 0 /\ n1.id # 0 /\ n2.id # 0
             /\ active' = RegisterExecution(active, c.w, id, t)
             /\ SetHeap(StartExecution(n2.H, c.w, id, n1.id, n2.id))
             /\ es' = [es EXCEPT ![t].wmem = r1.mem, ![t].smem = r2.mem]
             /\ started' = started \cup {req}
             /\ call' = [call EXCEPT ![t].pc = "waiting", ![t].execId = id,
                                     ![t].req = req,
                                     ![t].wmh = r1.handle, ![t].smh = r2.handle,
                                     ![t].nextW = n1.id,
                                     ![t].nextS = n2.id,
                                     ![t].nOpenMem = r1.sent + r2.sent,
                                     ![t].nStart = @ + 1]
             /\ UNCHANGED panicked
  /\ UNCHANGED <<restVars, calls, served, backends, lastOpen, cache, binValid,
                 subnetAvail, sweeperPc, sweepList>>

\* ------------------------------------------------------------- the sandbox
DeltaAll == [p \in Pages |-> 1]
DeltaOne == [p \in Pages |-> IF p = 1 THEN MaxContent ELSE 0]

ExecOutput(ok, hasState, wd, ws, sd, ss, g) ==
  [kind |-> "exec", ok |-> ok, err |-> IF ok THEN "" ELSE "trap",
   hasState |-> hasState, wdelta |-> wd, wsize |-> ws, sdelta |-> sd, ssize |-> ss,
   globals |-> g, sam |-> g, ssc |-> g, instr |-> g, accessed |-> 1, dirty |-> 1]

\* The execution outputs a sandbox sends: a trap that still proposes state
\* changes, a success without state, and two successes with state.
Replies ==
  { ExecOutput(FALSE, TRUE, DeltaAll, 1, DeltaOne, 2, 1),
    ExecOutput(TRUE, FALSE, EmptyPM, 0, EmptyPM, 0, 1),
    ExecOutput(TRUE, TRUE, DeltaAll, 1, DeltaOne, 2, 1),
    ExecOutput(TRUE, TRUE, DeltaOne, 2, DeltaAll, 1, 2) }

\* ExecutionFinished { exec_id, output }: the controller service takes the
\* completion registered under exec_id and calls it, which sends the output
\* into the caller's channel.
ExecutionFinished(e, r) ==
  /\ panicked = ""
  /\ e \in started
  /\ proc[e.w].st = "running"
  /\ \E entry \in active[e.w] :
       /\ entry.id = e.id
       /\ active' = [active EXCEPT ![e.w] = @ \ {entry}]
       /\ call' = [call EXCEPT ![entry.t].out = r]
  /\ started' = started \ {e}
  /\ SetHeap(Heap)
  /\ UNCHANGED <<restVars, calls, served, backends, lastOpen, cache, binValid,
                 es, subnetAvail, sweeperPc, sweepList, panicked>>

\* ------------------------------------------------------- process: the commit
\* A commit of one memory that keeps the old binding.
CommitMemory_KeepBinding(H, mem, w, delta, size, next) ==
  [H |-> H, mem |-> [pm |-> Merge(mem.pm, delta), size |-> size, sb |-> mem.sb]]

\* A commit of one memory that does not set the size.
CommitMemory_KeepSize(H, mem, w, delta, size, next) ==
  [H |-> DropMemHandle(WrapRemoteMemory(H, w, next), mem.sb),
   mem |-> [pm |-> Merge(mem.pm, delta), size |-> mem.size, sb |-> next]]

\* One memory of the commit: deserialize_delta, the size, and the binding
\* replaced by SandboxMemory::synced(wrap_remote_memory(.., next id)); the old
\* binding is dropped by the assignment.
CommitMemory(H, mem, w, delta, size, next) ==
  [H |-> DropMemHandle(WrapRemoteMemory(H, w, next), mem.sb),
   mem |-> [pm |-> Merge(mem.pm, delta), size |-> size, sb |-> next]]

\* A commit that does not look at wasm_result.
CommitState_IgnoreResult(H, s, c, r, cell) ==
  IF r.hasState
  THEN LET m1 == CommitMemory(H, s.wmem, c.w, r.wdelta, r.wsize, c.nextW)
           m2 == CommitMemory(m1.H, s.smem, c.w, r.sdelta, r.ssize, c.nextS)
       IN [H |-> m2.H,
           es |-> [s EXCEPT !.wmem = m1.mem, !.smem = m2.mem, !.globals = r.globals],
           ssc |-> r.ssc, cell |-> r.sam]
  ELSE [H |-> H, es |-> s, ssc |-> 0, cell |-> cell]

\* A commit that does not look at state.
CommitState_IgnoreState(H, s, c, r, cell) ==
  IF r.ok
  THEN LET m1 == CommitMemory(H, s.wmem, c.w, r.wdelta, r.wsize, c.nextW)
           m2 == CommitMemory(m1.H, s.smem, c.w, r.sdelta, r.ssize, c.nextS)
       IN [H |-> m2.H,
           es |-> [s EXCEPT !.wmem = m1.mem, !.smem = m2.mem, !.globals = r.globals],
           ssc |-> r.ssc, cell |-> r.sam]
  ELSE [H |-> H, es |-> s, ssc |-> 0, cell |-> cell]

\* process(), "Unless execution trapped, commit state": the execution state,
\* the system state changes returned and the subnet available memory cell.
CommitState(H, s, c, r, cell) ==
  IF r.ok /\ r.hasState
  THEN LET m1 == CommitMemory(H, s.wmem, c.w, r.wdelta, r.wsize, c.nextW)
           m2 == CommitMemory(m1.H, s.smem, c.w, r.sdelta, r.ssize, c.nextS)
       IN [H |-> m2.H,
           es |-> [s EXCEPT !.wmem = m1.mem, !.smem = m2.mem, !.globals = r.globals],
           ssc |-> r.ssc, cell |-> r.sam]
  ELSE [H |-> H, es |-> s, ssc |-> 0, cell |-> cell]

\* A receive that gives up waiting.
Received_TimedOut(c) == TRUE

\* rx.recv(): blocks until the completion of call c has sent the output into
\* the channel.
Received(c) == c.out.kind # "none"

\* process(), from rx.recv() to the return; the locals are dropped in reverse
\* order of declaration.
Finish(t) ==
  /\ panicked = ""
  /\ call[t].pc = "waiting"
  /\ Received(call[t])
  /\ LET c == call[t]
         k == CommitState(Heap, es[t], c, c.out, subnetAvail)
     IN /\ SetHeap(DropArc(DropMemHandle(DropMemHandle(k.H, c.smh), c.wmh), c.w))
        /\ es' = [es EXCEPT ![t] = k.es]
        /\ subnetAvail' = k.cell
        /\ served' = served \cup {c.w}
        /\ call' = [call EXCEPT ![t].pc = "returned", ![t].ssc = k.ssc]
  /\ UNCHANGED <<restVars, calls, backends, lastOpen, cache, binValid, active,
                 started, sweeperPc, sweepList, panicked>>

\* The caller takes the values a call returned.
Collect(t) ==
  /\ panicked = ""
  /\ call[t].pc = "returned"
  /\ call' = [call EXCEPT ![t] = IdleCall]
  /\ SetHeap(Heap)
  /\ UNCHANGED <<restVars, calls, served, backends, lastOpen, cache, binValid,
                 es, active, started, subnetAvail, sweeperPc, sweepList,
                 panicked>>

\* --------------------------------------------------- create_execution_state
CreateOutput(ok, delta, size, g) ==
  [NoReply EXCEPT !.kind = "create", !.ok = ok, !.err = IF ok THEN "" ELSE "create",
                  !.wdelta = delta, !.wsize = size, !.globals = g]

\* The replies of the sandbox to CreateExecutionState.
CreateReplies ==
  { CreateOutput(TRUE, DeltaAll, 1, 1), CreateOutput(FALSE, EmptyPM, 0, 0) }

\* An execution state whose wasm memory carries the delta and is left Unsynced.
NewExecutionState_Unsynced(bin, r, next) ==
  [bin |-> bin,
   wmem |-> [pm |-> Merge(EmptyPM, r.wdelta), size |-> r.wsize, sb |-> 0],
   smem |-> DefaultMemory,
   globals |-> r.globals]

\* An execution state whose wasm memory ignores the delta of the reply.
NewExecutionState_NoDelta(bin, r, next) ==
  [bin |-> bin,
   wmem |-> [pm |-> EmptyPM, size |-> r.wsize, sb |-> next],
   smem |-> DefaultMemory,
   globals |-> r.globals]

\* create_execution_state(), step 5: the wasm memory is the default page map
\* with the reply's delta and size, Synced to next_wasm_memory_id; the stable
\* memory is Memory::default().
NewExecutionState(bin, r, next) ==
  [bin |-> bin,
   wmem |-> [pm |-> Merge(EmptyPM, r.wdelta), size |-> r.wsize, sb |-> next],
   smem |-> DefaultMemory,
   globals |-> r.globals]

\* create_execution_state(), from MemoryId::new() to the return.
CreateRpc(t, r) ==
  /\ panicked = ""
  /\ call[t].pc = "opened"
  /\ call[t].op = "create"
  /\ proc[call[t].w].st = "running"
  /\ LET c == call[t]
         n == MintMemId(Heap)
         H1 == Send(n.H, "CreateExecutionState", c.w, n.id)
         next == n.id
     IN /\ next # 0
        /\ IF r.ok
           THEN /\ SetHeap(DropArc(WrapRemoteMemory(H1, c.w, next), c.w))
                /\ es' = [es EXCEPT ![t] = NewExecutionState(c.bin, r, next)]
                /\ call' = [call EXCEPT ![t].pc = "returned", ![t].out = r,
                                        ![t].nextW = next]
                /\ UNCHANGED <<cache, lastOpen, binValid>>
           ELSE /\ SetHeap(DropArc(DropBinary(H1, c.bin), c.w))
                /\ cache' = [cache EXCEPT ![c.bin] = NoCache]
                /\ lastOpen' = [lastOpen EXCEPT ![c.bin] = NoCache]
                /\ binValid' = [binValid EXCEPT ![c.bin] = TRUE]
                /\ call' = [call EXCEPT ![t].pc = "returned", ![t].out = r,
                                        ![t].nextW = next]
                /\ UNCHANGED es
  /\ UNCHANGED <<restVars, calls, served, backends, active, started,
                 subnetAvail, sweeperPc, sweepList, panicked>>

\* ------------------------------------------------------------------ sweeper
\* A sweeper that never finds a backend inactive.
Inactive_Never(slot) == FALSE

\* An eviction test that is not strict.
Inactive_AtThreshold(slot) == slot.age >= tIdle

\* inactive_time > SANDBOX_PROCESS_INACTIVE_TIME_BEFORE_EVICTION. A slot's age
\* is now - last_used, counted up to tIdle + 1.
Inactive(slot) == slot.age > tIdle

\* A sweep that empties every Evicted backend without trying the upgrade.
ScavengeBackend_DropEvicted(H, slot) ==
  CASE slot.tag = "Active" ->
         IF Inactive(slot)
         THEN [slot |-> Evicted(slot.w), w |-> slot.w, H |-> H]
         ELSE [slot |-> slot, w |-> slot.w, H |-> CloneArc(H, slot.w)]
    [] slot.tag = "Evicted" -> [slot |-> Empty, w |-> 0, H |-> H]
    [] OTHER -> [slot |-> slot, w |-> 0, H |-> H]

\* scavenge_sandbox_processes, the body of the loop for one backend: the new
\* backend, the worker pushed to the result (0 = none) and the new heap.
ScavengeBackend(H, slot) ==
  CASE slot.tag = "Active" ->
         IF Inactive(slot)
         THEN \* the clone goes to the result, the slot's Arc is downgraded
              [slot |-> Evicted(slot.w), w |-> slot.w, H |-> H]
         ELSE [slot |-> slot, w |-> slot.w, H |-> CloneArc(H, slot.w)]
    [] slot.tag = "Evicted" ->
         IF Upgrades(H, slot.w)
         THEN [slot |-> slot, w |-> slot.w, H |-> CloneArc(H, slot.w)]
         ELSE [slot |-> Empty, w |-> 0, H |-> H]
    [] OTHER -> [slot |-> slot, w |-> 0, H |-> H]

\* scavenge_sandbox_processes: the loop over guard.values_mut(), todo being
\* the entries not yet visited; result is the Vec returned.
RECURSIVE ScavengeAll(_, _, _, _)
ScavengeAll(H, B, result, todo) ==
  IF todo = {} THEN [H |-> H, B |-> B, result |-> result]
  ELSE LET e == CHOOSE x \in todo : TRUE
           r == ScavengeBackend(H, e.slot)
       IN ScavengeAll(r.H, Replace(B, e.c, r.slot),
                      IF r.w # 0 THEN Append(result, r.w) ELSE result, todo \ {e})

\* monitor_and_evict_sandbox_processes: scavenge_sandbox_processes(&backends)
Scavenge ==
  /\ panicked = ""
  /\ sweeperPc = "sleep"
  /\ LET r == ScavengeAll(LockBackends(Heap), backends, <<>>, backends)
     IN /\ SetHeap(UnlockBackends(r.H))
        /\ backends' = r.B
        /\ sweepList' = r.result
  /\ sweeperPc' = "probe"
  /\ UNCHANGED <<restVars, calls, served, lastOpen, cache, binValid, es, call,
                 active, started, subnetAvail, panicked>>

\* The drop of a Vec<Arc<SandboxProcess>>, element by element.
RECURSIVE DropAll(_, _)
DropAll(H, S) ==
  IF S = <<>> THEN H ELSE DropAll(DropArc(H, Head(S)), Tail(S))

\* What process_os_metrics reports for a pid when it can.
AnonRss(pid) == pid
MemfdRss(pid) == 2 * pid

RECURSIVE SumSeq(_)
SumSeq(q) == IF q = <<>> THEN 0 ELSE Head(q) + SumSeq(Tail(q))

\* A loop that writes total = kib where the code adds.
ProbeTotal_LastOnly(probe) ==
  LET oks == SelectSeq(probe, LAMBDA r : r.ok)
  IN IF oks = <<>> THEN 0 ELSE oks[Len(oks)].kib

\* monitor_and_evict_sandbox_processes, the loop over &sandbox_processes for
\* one of the two totals: total += kib for every probe that returned Ok(kib);
\* an Err is logged and adds nothing.
ProbeTotal(probe) ==
  SumSeq([i \in 1..Len(probe) |-> IF probe[i].ok THEN probe[i].kib ELSE 0])

\* One probe as it appears in sent: the value read, or the warning logged.
ProbeNote(H, kind, pid, probe) ==
  Send(H, IF probe.ok THEN kind ELSE kind \o " failed", pid, probe.kib)

\* The probes of the loop as they appear in sent: for every process of S, in
\* order, get_anon_rss and then get_memfd_rss.
RECURSIVE ProbeNotes(_, _, _, _)
ProbeNotes(H, S, pa, pm) ==
  IF S = <<>> THEN H
  ELSE LET i == Len(pa) - Len(S) + 1
       IN ProbeNotes(ProbeNote(ProbeNote(H, "anon_rss", Head(S), pa[i]),
                               "memfd_rss", Head(S), pm[i]),
                     Tail(S), pa, pm)

\* monitor_and_evict_sandbox_processes: the metrics are read and published,
\* then the Vec of processes is dropped at the end of the loop body. P holds
\* the outcomes a probe can have: TRUE for Ok, FALSE for Err.
SweepFinish(P) ==
  /\ panicked = ""
  /\ sweeperPc = "probe"
  /\ \E anon \in [1..Len(sweepList) -> P], memfd \in [1..Len(sweepList) -> P] :
       LET pa == [i \in 1..Len(sweepList) |->
                    [ok |-> anon[i],
                     kib |-> IF anon[i] THEN AnonRss(sweepList[i]) ELSE 0]]
           pm == [i \in 1..Len(sweepList) |->
                    [ok |-> memfd[i],
                     kib |-> IF memfd[i] THEN MemfdRss(sweepList[i]) ELSE 0]]
           H1 == ProbeNotes(Heap, sweepList, pa, pm)
           H2 == Send(H1, "anon_rss_total", 0, ProbeTotal(pa))
           H3 == Send(H2, "memfd_rss_total", 0, ProbeTotal(pm))
       IN SetHeap(DropAll(H3, sweepList))
  /\ sweepList' = <<>>
  /\ sweeperPc' = "sleep"
  /\ UNCHANGED <<restVars, calls, served, backends, lastOpen, cache, binValid,
                 es, call, active, started, subnetAvail, panicked>>

\* Time passes: every Active backend becomes older.
Tick ==
  /\ panicked = ""
  /\ \E e \in backends : e.slot.tag = "Active" /\ e.slot.age <= tIdle
  /\ backends' = {IF e.slot.tag = "Active" /\ e.slot.age <= tIdle
                   THEN [e EXCEPT !.slot.age = @ + 1]
                   ELSE e : e \in backends}
  /\ SetHeap(Heap)
  /\ UNCHANGED <<restVars, calls, served, lastOpen, cache, binValid, es, call,
                 active, started, subnetAvail, sweeperPc, sweepList, panicked>>

\* ------------------------------------------------------------ specification
\* The steps of the caller threads T, of the sandboxes and of the sweeper.
\* ------------------------------------------------------- the crash watcher
\* The values of ExitStatus::code() and ExitStatus::signal().
Codes == {None, Some(1)}
Signals == {None, Some(9)}

\* A message that looks at the signal first.
PanicDueToSandboxExit_SignalFirst(code, signal, canister_id, pid) ==
  IF signal.some
  THEN [canister |-> canister_id, pid |-> pid, cause |-> "exited due to signal",
        n |-> signal.v]
  ELSE IF code.some
  THEN [canister |-> canister_id, pid |-> pid, cause |-> "exited with status code",
        n |-> code.v]
  ELSE [canister |-> canister_id, pid |-> pid, cause |-> "exited for unknown reason",
        n |-> 0]

\* panic_due_to_sandbox_exit: the message of the panic.
PanicDueToSandboxExit(code, signal, canister_id, pid) ==
  IF code.some
  THEN [canister |-> canister_id, pid |-> pid, cause |-> "exited with status code",
        n |-> code.v]
  ELSE IF signal.some
  THEN [canister |-> canister_id, pid |-> pid, cause |-> "exited due to signal",
        n |-> signal.v]
  ELSE [canister |-> canister_id, pid |-> pid, cause |-> "exited for unknown reason",
        n |-> 0]

\* The child process of worker w exits: after the Terminate it was sent, or
\* killed from outside at any time. child_handle.wait() then returns.
ChildExit(w, code, signal) ==
  /\ panicked = ""
  /\ strong[w] > 0 \/ term[w] = 1
  /\ proc[w].st = "running"
  /\ SetHeap([Heap EXCEPT !.proc[w] =
                [@ EXCEPT !.st = "exited", !.code = code, !.signal = signal]])
  /\ UNCHANGED <<restVars, calls, served, backends, lastOpen, cache, binValid,
                 es, call, active, started, subnetAvail, sweeperPc, sweepList,
                 panicked>>

\* A watcher that takes every exit for a crash.
Unexpected_Always(H, w) == TRUE

\* observe_sandbox_process: sandbox_process.upgrade().is_some()
Unexpected(H, w) == Upgrades(H, w)

\* observe_sandbox_process, the thread after child_handle.wait(): the pid of a
\* worker is its number. The thread either panics, with the exit status in
\* hand, or returns and its locals are gone.
Observe(w) ==
  /\ panicked = ""
  /\ proc[w].st = "exited"
  /\ IF Unexpected(Heap, w)
     THEN /\ SetHeap([Heap EXCEPT !.proc[w].st = "observed"])
          /\ panicked' = "sandbox exit"
          /\ panicMsg' = PanicDueToSandboxExit(proc[w].code, proc[w].signal,
                                               proc[w].canister, w)
     ELSE /\ SetHeap([Heap EXCEPT !.proc[w] =
                        [@ EXCEPT !.st = "observed", !.code = None, !.signal = None]])
          /\ UNCHANGED <<panicked, panicMsg>>
  /\ UNCHANGED <<bookVars, tIdle, calls, served, backends, lastOpen, cache,
                 binValid, es, call, active, started, subnetAvail, sweeperPc,
                 sweepList>>

NextOf(T, C, P) ==
  \/ \E t \in T, b \in Binaries, v \in BOOLEAN : LoadState(t, b, v)
  \/ \E t \in T, o \in BOOLEAN : DropState(t, o)
  \/ \E t \in T, c \in C : StartProcess(t, c)
  \/ \E t \in T, c \in C, v \in BOOLEAN : StartCreate(t, c, v)
  \/ \E t \in T : OpenWasm(t)
  \/ \E t \in T : Prepare(t)
  \/ \E e \in started, r \in Replies : ExecutionFinished(e, r)
  \/ \E t \in T : Finish(t)
  \/ \E t \in T, r \in CreateReplies : CreateRpc(t, r)
  \/ \E t \in T : Collect(t)
  \/ Scavenge
  \/ SweepFinish(P)
  \/ Tick

Next == NextOf(Threads, {"c1"}, {TRUE})

Spec == Init /\ [][Next]_vars

\* The two caller threads and the sandboxes, while the sweeper thread sleeps
\* (it wakes only every SANDBOX_PROCESS_UPDATE_INTERVAL).
NextCallers ==
  \/ \E t \in Threads, b \in Binaries, v \in BOOLEAN : LoadState(t, b, v)
  \/ \E t \in Threads, o \in BOOLEAN : DropState(t, o)
  \/ \E t \in Threads : StartProcess(t, "c1")
  \/ \E t \in Threads, v \in BOOLEAN : StartCreate(t, "c1", v)
  \/ \E t \in Threads : OpenWasm(t)
  \/ \E t \in Threads : Prepare(t)
  \/ \E e \in started, r \in Replies : ExecutionFinished(e, r)
  \/ \E t \in Threads : Finish(t)
  \/ \E t \in Threads, r \in CreateReplies : CreateRpc(t, r)
  \/ \E t \in Threads : Collect(t)

CallersSpec == Init /\ [][NextCallers]_vars

NextLive == NextOf({1}, {"c1"}, {TRUE})

\* One caller, one canister, and worker processes that exit.
NextCrash ==
  \/ NextLive
  \/ \E w \in Workers, code \in Codes, signal \in Signals : ChildExit(w, code, signal)
  \/ \E w \in Workers : Observe(w)

CrashSpec == Init /\ [][NextCrash]_vars

\* One caller at a time: the calls of a behaviour are sequential.
OneCallerSpec == Init /\ [][NextLive]_vars

\* One caller, two canisters, and probes that may fail.
NextMetrics == NextOf({1}, Canisters, BOOLEAN)

MetricsSpec == Init /\ [][NextMetrics]_vars

\* One caller and a build whose eviction threshold is positive.
WarmSpec == InitWith(TWarm) /\ [][NextLive]_vars

\* One caller thread whose drop of an execution state can be overtaken by the
\* sweeper between the upgrade and the close_wasm of Drop for OpenedWasm.
NextDropRace ==
  \/ NextLive
  \/ \E t \in {1} : DropStateUpgrade(t)
  \/ \E t \in {1} : DropStateFinish(t)

DropRaceSpec == Init /\ [][NextDropRace]_vars

\* One caller thread, under either value of the eviction threshold.
AcquireSpec == (InitWith(TIdle) \/ InitWith(TWarm)) /\ [][NextLive]_vars

\* ------------------------------------------- open_remote_memory, shared memory
\* open_remote_memory takes the memory by shared reference (&Memory) and locks
\* memory.sandbox_memory for the whole function, which makes each call one
\* step. Two callers that have acquired the worker of the canister hold a
\* reference to the same two memories, kept in es[1], and apply
\* open_remote_memory to them in any order.
MemoryKinds == {"wasm", "stable"}

MemoryOf(s, k) == IF k = "wasm" THEN s.wmem ELSE s.smem

HandleOf(c, k) == IF k = "wasm" THEN c.wmh ELSE c.smh

SharedInit ==
  \E c \in Canisters, wsize \in 0..NumPages, ssize \in 0..NumPages :
    /\ backends = {Entry(c, Active(1, 0))}
    /\ tIdle = TIdle
    /\ calls = 0
    /\ strong = [w \in Workers |-> IF w = 1 THEN 1 + Cardinality(Threads) ELSE 0]
    /\ term = [w \in Workers |-> 0]
    /\ proc = [w \in Workers |-> IF w = 1 THEN Running(c) ELSE Running("")]
    /\ memWorker = [m \in MemIds |-> 0]
    /\ memRefs = [m \in MemIds |-> 0]
    /\ sent = <<>>
    /\ remote = [w \in Workers |-> NothingOpen]
    /\ served = {}
    /\ lastOpen = [b \in Binaries |-> NoCache]
    /\ cache = [b \in Binaries |-> NoCache]
    /\ binValid = [b \in Binaries |-> TRUE]
    /\ es = [t \in Threads |->
               IF t = 1
               THEN [NoState EXCEPT !.bin = 1, !.wmem.size = wsize,
                                    !.smem.size = ssize]
               ELSE NoState]
    /\ call = [t \in Threads |->
                 [IdleCall EXCEPT !.pc = "opened", !.op = "process", !.c = c,
                                  !.w = 1, !.bin = 1]]
    /\ active = [w \in Workers |-> {}]
    /\ started = {}
    /\ subnetAvail = 0
    /\ sweeperPc = "sleep"
    /\ sweepList = <<>>
    /\ panicked = ""
    /\ panicMsg = NoMessage
    /\ NoBook

\* open_remote_memory(&sandbox_process, &execution_state.<k>_memory) by
\* caller t on the shared memory; the handle returned is kept by the caller.
OpenRemoteMemoryCall(t, k) ==
  /\ panicked = ""
  /\ call[t].pc = "opened"
  /\ HandleOf(call[t], k) = 0
  /\ LET r == OpenRemoteMemory(Heap, call[t].w, MemoryOf(es[1], k))
     IN IF r.panic
        THEN /\ panicked' = "open_remote_memory: unsynced memory is dirty"
             /\ SetHeap(Heap)
             /\ UNCHANGED <<es, call>>
        ELSE /\ r.handle # 0
             /\ SetHeap(r.H)
             /\ es' = IF k = "wasm" THEN [es EXCEPT ![1].wmem = r.mem]
                                    ELSE [es EXCEPT ![1].smem = r.mem]
             /\ call' = IF k = "wasm"
                        THEN [call EXCEPT ![t].wmh = r.handle,
                                          ![t].nOpenMem = @ + r.sent]
                        ELSE [call EXCEPT ![t].smh = r.handle,
                                          ![t].nOpenMem = @ + r.sent]
             /\ UNCHANGED panicked
  /\ UNCHANGED <<restVars, calls, served, backends, lastOpen, cache, binValid,
                 active, started, subnetAvail, sweeperPc, sweepList>>

\* Drop for OpenedMemory: caller t lets go of the handle it was given.
DropOpenedMemory(t, k) ==
  /\ panicked = ""
  /\ HandleOf(call[t], k) # 0
  /\ SetHeap(DropMemHandle(Heap, HandleOf(call[t], k)))
  /\ call' = IF k = "wasm" THEN [call EXCEPT ![t].wmh = 0]
                           ELSE [call EXCEPT ![t].smh = 0]
  /\ UNCHANGED <<restVars, calls, served, backends, lastOpen, cache, binValid,
                 es, active, started, subnetAvail, sweeperPc, sweepList,
                 panicked>>

NextShared ==
  \/ \E t \in Threads, k \in MemoryKinds : OpenRemoteMemoryCall(t, k)
  \/ \E t \in Threads, k \in MemoryKinds : DropOpenedMemory(t, k)

SharedMemorySpec == SharedInit /\ [][NextShared]_vars

\* One caller thread, with the sweeper thread scheduled fairly and time
\* passing: the sweeper is a dedicated thread that loops forever.
LiveSpec ==
  /\ Init /\ [][NextLive]_vars
  /\ WF_vars(Scavenge) /\ WF_vars(SweepFinish({TRUE})) /\ WF_vars(Tick)

\* ------------------------------------------------------ the address book
Addrs == 1..MaxAddr

\* The networks a book is built for: one whose limits are far above the
\* number of addresses and one whose limit is one address.
Networks == {"Bitcoin", "Regtest"}

\* address_limits(network): (min_addresses, max_addresses)
AddressLimits(n) ==
  CASE n = "Bitcoin" -> <<500, 2000>>
    [] n = "Testnet" -> <<100, 1000>>
    [] n = "Signet" -> <<1, 1>>
    [] n = "Regtest" -> <<1, 1>>

\* Sequences over S of length at most n.
SeqsUpTo(S, n) == UNION {[1..k -> S] : k \in 0..n}

\* AddressBook::new: the seed queue is the shuffled list of the addresses the
\* DNS seeds resolve to, the known addresses are the configured nodes, and
\* construction fails when both are empty.
BookInit ==
  /\ ControllerInit(TIdle)
  /\ network \in Networks
  /\ seedQueue \in SeqsUpTo(Addrs, MaxSeeds)
  /\ knownAddresses \in SUBSET Addrs
  /\ ~(seedQueue = <<>> /\ knownAddresses = {})
  /\ activeAddresses = {}
  /\ bookRet = NoRet
  /\ seedRun = [start |-> seedQueue, got |-> <<>>]

\* A push that puts the address at the front.
PushBack_Front(q, a) == <<a>> \o q

\* VecDeque::push_back
PushBack(q, a) == Append(q, a)

\* The seeds returned by the pop_seed calls since the queue was last in the
\* order start; a run ends when it is as long as the queue.
Logged(run, q, a) ==
  IF Len(run.got) >= Len(q)
  THEN [start |-> q, got |-> <<a>>]
  ELSE [run EXCEPT !.got = Append(@, a)]

\* pop_seed()
PopSeed ==
  /\ IF seedQueue = <<>>
     THEN /\ bookRet' = RetErr("pop_seed", "NoSeedAddressesFound")
          /\ UNCHANGED <<seedQueue, seedRun>>
     ELSE LET address == Head(seedQueue)
          IN /\ seedQueue' = PushBack(Tail(seedQueue), address)
             /\ bookRet' = RetEntry("pop_seed", "Seed", address)
             /\ seedRun' = Logged(seedRun, seedQueue, address)
  /\ UNCHANGED <<network, knownAddresses, activeAddresses, controllerVars>>

\* A mark_as_active that leaves the address among the known ones.
MarkAsActive_KeepKnown(known, act, addr) ==
  [known |-> known, active |-> act \cup {addr}]

\* mark_as_active(addr)
MarkAsActive(known, act, addr) ==
  [known |-> known \ {addr}, active |-> act \cup {addr}]

\* pop(): an address chosen at random among the known ones, if there is one.
Pop ==
  /\ IF knownAddresses = {}
     THEN /\ bookRet' = RetErr("pop", "AddressesDepleted")
          /\ UNCHANGED <<knownAddresses, activeAddresses>>
     ELSE \E addr \in knownAddresses :
            LET m == MarkAsActive(knownAddresses, activeAddresses, addr)
            IN /\ knownAddresses' = m.known
               /\ activeAddresses' = m.active
               /\ bookRet' = RetEntry("pop", "Discovered", addr)
  /\ UNCHANGED <<network, seedQueue, seedRun, controllerVars>>

\* remove_from_active(address), as a function of the two sets.
RemoveFromActiveSets(known, act, kind, addr) ==
  IF kind = "Discovered"
  THEN [known |-> known \cup {addr}, active |-> act \ {addr}]
  ELSE [known |-> known, active |-> act]

\* remove_from_active(&AddressEntry)
RemoveFromActive(kind, addr) ==
  /\ LET m == RemoveFromActiveSets(knownAddresses, activeAddresses, kind, addr)
     IN /\ knownAddresses' = m.known
        /\ activeAddresses' = m.active
  /\ bookRet' = RetGiven("remove_from_active", kind, addr)
  /\ UNCHANGED <<network, seedQueue, seedRun, controllerVars>>

\* A has_seeds that never sees a seed.
HasSeeds_Never == FALSE

\* has_seeds()
HasSeeds == seedQueue # <<>>

\* discard(&AddressEntry)
Discard(kind, addr) ==
  /\ IF kind = "Discovered"
     THEN IF HasSeeds
          THEN /\ activeAddresses' = activeAddresses \ {addr}
               /\ knownAddresses' = knownAddresses \ {addr}
          ELSE LET m == RemoveFromActiveSets(knownAddresses, activeAddresses,
                                             kind, addr)
               IN /\ knownAddresses' = m.known
                  /\ activeAddresses' = m.active
     ELSE UNCHANGED <<knownAddresses, activeAddresses>>
  /\ bookRet' = RetGiven("discard", kind, addr)
  /\ UNCHANGED <<network, seedQueue, seedRun, controllerVars>>

\* An entry of an addr message: the socket address it carries, whether its
\* service flags pass validate_address, and whether socket_addr() is Ok.
AddrEntries == [addr : Addrs, services : BOOLEAN, socket : BOOLEAN]

\* An add that does not look at the active set.
Add_IgnoreActive(known, act, addr) == known \cup {addr}

\* add(addr), as a function of the known set.
Add(known, act, addr) == IF addr \in act THEN known ELSE known \cup {addr}

\* An add_many loop that stops at the first entry it does not add.
RECURSIVE AddLoop_StopAtInvalid(_, _, _, _, _, _)
AddLoop_StopAtInvalid(known, act, max, sender, msg, i) ==
  IF i > Len(msg) \/ Cardinality(known) >= max THEN known
  ELSE IF msg[i].services /\ msg[i].socket /\ sender # msg[i].addr
       THEN AddLoop_StopAtInvalid(Add(known, act, msg[i].addr), act, max,
                                  sender, msg, i + 1)
       ELSE known

\* add_many, the loop: the known set after the entries of msg from i on.
RECURSIVE AddLoop(_, _, _, _, _, _)
AddLoop(known, act, max, sender, msg, i) ==
  IF i > Len(msg) \/ Cardinality(known) >= max THEN known
  ELSE IF msg[i].services /\ msg[i].socket /\ sender # msg[i].addr
       THEN AddLoop(Add(known, act, msg[i].addr), act, max, sender, msg, i + 1)
       ELSE AddLoop(known, act, max, sender, msg, i + 1)

\* An addr message is given as its first entries msg and the number pad of
\* further copies of its last entry that follow them.
MsgLen(msg, pad) == Len(msg) + pad

\* The entries of the message up to the first repetition: a repeated entry
\* passes the same tests as before and adds an address that is already known
\* or active, so the copies after the first change nothing.
MsgBody(msg, pad) == IF pad > 0 THEN Append(msg, msg[Len(msg)]) ELSE msg

\* add_many(sender, addresses)
AddMany(sender, msg, pad) ==
  /\ IF MsgLen(msg, pad) > MAX_ADDR_MESSAGE_SIZE
     THEN /\ bookRet' = RetAddMany(RetErr("add_many", "TooManyAddresses"),
                                   sender, msg, pad)
          /\ UNCHANGED knownAddresses
     ELSE /\ knownAddresses' = AddLoop(knownAddresses, activeAddresses,
                                       AddressLimits(network)[2], sender,
                                       MsgBody(msg, pad), 1)
          /\ bookRet' = RetAddMany(RetOk("add_many"), sender, msg, pad)
  /\ UNCHANGED <<network, activeAddresses, seedQueue, seedRun, controllerVars>>

\* The entries a caller hands to remove_from_active and discard.
EntryKinds == {"Seed", "Discovered"}

\* The addr messages of at most n distinct leading entries, without padding.
ShortMessages(n) == {[msg |-> m, pad |-> 0] : m \in SeqsUpTo(AddrEntries, n)}

\* The addr messages of one entry repeated up to the size limit and beyond it.
LongMessages ==
  {[msg |-> <<e>>, pad |-> p] :
     e \in AddrEntries,
     p \in {MAX_ADDR_MESSAGE_SIZE - 1, MAX_ADDR_MESSAGE_SIZE}}

NextBookOf(M) ==
  \/ PopSeed
  \/ Pop
  \/ \E kind \in EntryKinds, addr \in Addrs : RemoveFromActive(kind, addr)
  \/ \E kind \in EntryKinds, addr \in Addrs : Discard(kind, addr)
  \/ \E sender \in Addrs, m \in M : AddMany(sender, m.msg, m.pad)

\* The book under every operation, with addr messages of at most MaxGossip
\* entries.
NextBook == NextBookOf(ShortMessages(MaxGossip))

BookSpec == BookInit /\ [][NextBook]_vars

\* The book between two addr messages: every operation but add_many.
NextBookOps ==
  \/ PopSeed
  \/ Pop
  \/ \E kind \in EntryKinds, addr \in Addrs : RemoveFromActive(kind, addr)
  \/ \E kind \in EntryKinds, addr \in Addrs : Discard(kind, addr)

BookOpsSpec == BookInit /\ [][NextBookOps]_vars

\* A peer's addr message arrives at a book some of whose addresses are in use:
\* pop makes addresses active, add_many takes messages of up to MaxMsg entries
\* and messages at the size limit, and no add_many follows another directly
\* (the book the second would find is one the first can find as well).
AddManyAfterOther(sender, msg, pad) ==
  /\ bookRet.op # "add_many"
  /\ AddMany(sender, msg, pad)

NextAddMany ==
  \/ Pop
  \/ \E sender \in Addrs, m \in ShortMessages(MaxMsg) \cup LongMessages :
       AddManyAfterOther(sender, m.msg, m.pad)

AddManySpec == BookInit /\ [][NextAddMany]_vars

\* A book that starts within its limit: at most max_addresses known addresses.
LimitedBookInit ==
  /\ BookInit
  /\ Cardinality(knownAddresses) <= AddressLimits(network)[2]

\* remove_from_active for an address that is in use, as the connection
\* manager calls it when a connection ends.
RemoveActive(kind, addr) ==
  /\ addr \in activeAddresses
  /\ RemoveFromActive(kind, addr)

\* discard for an address that is in use.
DiscardActive(kind, addr) ==
  /\ addr \in activeAddresses
  /\ Discard(kind, addr)

NextLimitedBook ==
  \/ Pop
  \/ \E kind \in EntryKinds, addr \in Addrs : RemoveActive(kind, addr)
  \/ \E kind \in EntryKinds, addr \in Addrs : DiscardActive(kind, addr)
  \/ \E sender \in Addrs, m \in ShortMessages(MaxGossip) :
       AddMany(sender, m.msg, m.pad)

LimitedBookSpec == LimitedBookInit /\ [][NextLimitedBook]_vars

\* ================================================================== claims
\* The handles of memory id m that exist: the bindings of the execution states
\* and the handles a process call holds as locals while it waits.
HandleHolders(m) ==
  Cardinality({t \in Threads : es[t].wmem.sb = m})
  + Cardinality({t \in Threads : es[t].smem.sb = m})
  + Cardinality({t \in Threads : call[t].pc = "waiting" /\ call[t].wmh = m})
  + Cardinality({t \in Threads : call[t].pc = "waiting" /\ call[t].smh = m})

Returned(t, op) == call[t].pc = "returned" /\ call[t].op = op

\* The positions of sent that hold an entry of this kind.
SentOf(q, kind) == {i \in 1..Len(q) : q[i].kind = kind}

\* C1: whenever open_wasm finds a cached OpenedWasm whose weak reference
\* upgrades, the upgraded worker is the worker get_sandbox_process returned to
\* this call; the assertion in open_wasm never fails.
C1_CachedWorkerIsAcquired ==
  /\ panicked # "open_wasm: cached worker differs"
  /\ \A t \in Threads :
       (/\ call[t].pc = "acquired"
        /\ cache[call[t].bin] # NoCache
        /\ strong[cache[call[t].bin].w] > 0)
         => cache[call[t].bin].w = call[t].w

\* C1 witness: a call is about to run open_wasm on a cache whose OpenedWasm is
\* alive, after the backend was evicted and found again.
C1_Witness ==
  \E t \in Threads :
    /\ call[t].pc = "acquired"
    /\ call[t].nSpawn = 0
    /\ cache[call[t].bin] # NoCache
    /\ strong[cache[call[t].bin].w] > 0
    /\ Lookup(backends, call[t].c).tag = "Evicted"

\* C2: while a handle of a memory exists, the strong count of its worker is
\* positive and no Terminate was sent to that worker.
C2_MemoryKeepsWorkerAlive ==
  \A m \in MemIds :
    (HandleHolders(m) > 0 \/ memRefs[m] > 0)
      => /\ memWorker[m] # 0
         /\ strong[memWorker[m]] > 0
         /\ term[memWorker[m]] = 0

\* C2 witness: only memory handles keep a worker alive (the backend is
\* evicted, no call is running, the sweeper holds nothing).
C2_Witness ==
  \E m \in MemIds :
    /\ HandleHolders(m) > 0
    /\ backends # {}
    /\ \A e \in backends : e.slot.tag = "Evicted"
    /\ \A t \in Threads : call[t].pc = "idle"
    /\ sweepList = <<>>

\* C3: after process with wasm_result Ok and state Some, the bindings of the
\* returned state are Synced to the next ids this call sent in its
\* StartExecution, with handles of the worker that ran the execution.
C3_BindingsAreNextIds ==
  \A t \in Threads :
    (Returned(t, "process") /\ call[t].out.ok /\ call[t].out.hasState)
      => /\ call[t].req.nextW # 0 /\ call[t].req.nextS # 0
         /\ call[t].req.nextW # call[t].req.nextS
         /\ es[t].wmem.sb = call[t].req.nextW
         /\ es[t].smem.sb = call[t].req.nextS
         /\ call[t].req.nextW \notin {call[t].req.wmem, call[t].req.smem}
         /\ call[t].req.nextS \notin {call[t].req.wmem, call[t].req.smem}
         /\ \A u \in Threads \ {t} :
              {es[u].wmem.sb, es[u].smem.sb} \cap
                {call[t].req.nextW, call[t].req.nextS} = {}
         /\ memRefs[es[t].wmem.sb] > 0 /\ memRefs[es[t].smem.sb] > 0
         /\ memWorker[es[t].wmem.sb] = call[t].req.w
         /\ memWorker[es[t].smem.sb] = call[t].req.w
         /\ call[t].req.w = call[t].w

\* C3 witness: a process call returned a committed state.
C3_Witness ==
  \E t \in Threads :
    Returned(t, "process") /\ call[t].out.ok /\ call[t].out.hasState

\* C4: after a successful process whose reply carries a state, each page of
\* each memory is the delta's page where the delta has one and the page before
\* the call otherwise, the sizes are the reply's and so are the globals.
C4_CommitMergesDelta ==
  \A t \in Threads :
    (Returned(t, "process") /\ call[t].out.ok /\ call[t].out.hasState)
      => LET r == call[t].out
             in == call[t].input
         IN /\ \A p \in Pages :
                 /\ es[t].wmem.pm[p] =
                      IF r.wdelta[p] # 0 THEN r.wdelta[p] ELSE in.wmem.pm[p]
                 /\ es[t].smem.pm[p] =
                      IF r.sdelta[p] # 0 THEN r.sdelta[p] ELSE in.smem.pm[p]
            /\ es[t].wmem.size = r.wsize
            /\ es[t].smem.size = r.ssize
            /\ es[t].globals = r.globals

\* C4 witness: a commit in which the delta replaces one page that was set and
\* leaves another page that was set, and changes the size.
C4_Witness ==
  \E t \in Threads :
    /\ Returned(t, "process") /\ call[t].out.ok /\ call[t].out.hasState
    /\ \E p, q \in Pages :
         /\ call[t].out.wdelta[p] # 0
         /\ call[t].input.wmem.pm[p] \notin {0, call[t].out.wdelta[p]}
         /\ call[t].out.wdelta[q] = 0
         /\ call[t].input.wmem.pm[q] # 0
    /\ call[t].input.wmem.size # call[t].out.wsize

\* The frame of a memory outside a commit: page map and size as in the input,
\* the binding as in the input or, if that was Unsynced, the handle that
\* open_remote_memory made before dispatch.
MemoryKept(new, old, handle) ==
  /\ new.pm = old.pm
  /\ new.size = old.size
  /\ new.sb = handle
  /\ old.sb # 0 => new.sb = old.sb

\* C5: a process call whose reply has wasm_result Err returns the input state
\* but for bindings that open_memory synced, default system state changes,
\* and does not write the subnet available memory.
C5_TrapDiscardsChanges ==
  [][\A t \in Threads :
       (call[t].pc = "waiting" /\ call'[t].pc = "returned" /\ ~call[t].out.ok)
         => /\ MemoryKept(es'[t].wmem, call[t].input.wmem, call[t].req.wmem)
            /\ MemoryKept(es'[t].smem, call[t].input.smem, call[t].req.smem)
            /\ es'[t].globals = call[t].input.globals
            /\ es'[t].bin = call[t].input.bin
            /\ call'[t].ssc = 0
            /\ subnetAvail' = subnetAvail]_vars

\* C5 witness: a trapped execution that proposed state changes has returned,
\* on a state whose wasm memory was Unsynced at the call.
C5_Witness ==
  \E t \in Threads :
    /\ Returned(t, "process")
    /\ call[t].out.err = "trap" /\ call[t].out.hasState
    /\ call[t].out.sam # subnetAvail
    /\ call[t].input.wmem.sb = 0 /\ es[t].wmem.sb # 0

\* C6: a process call whose reply is Ok without state modifies nothing: page
\* maps, sizes and globals as in the input, bindings not replaced by the next
\* ids, the subnet available memory not written, default system state changes.
C6_NoStateNoCommit ==
  [][\A t \in Threads :
       (call[t].pc = "waiting" /\ call'[t].pc = "returned"
        /\ call[t].out.ok /\ ~call[t].out.hasState)
         => /\ MemoryKept(es'[t].wmem, call[t].input.wmem, call[t].req.wmem)
            /\ MemoryKept(es'[t].smem, call[t].input.smem, call[t].req.smem)
            /\ es'[t].wmem.sb # call[t].req.nextW
            /\ es'[t].smem.sb # call[t].req.nextS
            /\ memRefs'[call[t].req.nextW] = 0
            /\ memRefs'[call[t].req.nextS] = 0
            /\ es'[t].globals = call[t].input.globals
            /\ call'[t].ssc = 0
            /\ subnetAvail' = subnetAvail]_vars

\* C6 witness: an execution that succeeded without state has returned on a
\* state with contents.
C6_Witness ==
  \E t \in Threads :
    /\ Returned(t, "process")
    /\ call[t].out.ok /\ ~call[t].out.hasState
    /\ es[t].wmem.pm # EmptyPM

\* C7: when open_wasm fails in process, the output carries the compile error
\* with no instructions left and empty stats; no execution is registered, no
\* OpenMemory or StartExecution is sent, nothing is committed, and execution
\* state and module cache are as before.
C7_CompileErrorReturn ==
  [][\A t \in Threads :
       (call[t].pc = "acquired" /\ call[t].op = "process"
        /\ call'[t].pc = "returned")
         => /\ ~call'[t].out.ok /\ call'[t].out.err = "compile"
            /\ call'[t].out.instr = 0
            /\ call'[t].out.accessed = 0 /\ call'[t].out.dirty = 0
            /\ call'[t].ssc = 0
            /\ call'[t].execId = 0 /\ active' = active
            /\ SentOf(sent', "OpenMemory") = {}
            /\ SentOf(sent', "StartExecution") = {}
            /\ started' = started
            /\ call'[t].nOpenMem = 0 /\ call'[t].nStart = 0
            /\ es' = es /\ es[t] = call[t].input
            /\ memRefs' = memRefs
            /\ cache' = cache
            /\ subnetAvail' = subnetAvail]_vars

\* C7 witness: process returned a compile error on a worker on which another
\* caller's execution is registered and running.
C7_Witness ==
  \E t, u \in Threads :
    /\ Returned(t, "process")
    /\ call[t].out.err = "compile"
    /\ call[u].pc = "waiting"
    /\ call[u].w = call[t].w
    /\ active[call[t].w] # {}

\* C8: open_wasm with the worker and binary of the last successful open_wasm
\* returns the same id, sends nothing and reports count 0; any other
\* successful open_wasm sends one OpenWasm, for a new id, and reports count 1.
C8_OpenWasmIdempotent ==
  [][\A t \in Threads :
       (call[t].pc = "acquired" /\ call'[t].pc = "opened")
         => LET prev == lastOpen[call[t].bin]
                opens == SentOf(sent', "OpenWasm")
            IN IF prev.w = call[t].w
               THEN /\ call'[t].wasmId = prev.id
                    /\ call'[t].compileCount = 0
                    /\ sent' = <<>>
               ELSE /\ call'[t].compileCount = 1
                    /\ call'[t].wasmId \notin WasmInUse \cup {0}
                    /\ Cardinality(opens) = 1
                    /\ \A i \in opens : /\ sent'[i].w = call[t].w
                                        /\ sent'[i].id = call'[t].wasmId]_vars

\* C8 witness: a second open_wasm for the same worker and binary returned the
\* id of the first and sent nothing.
C8_Witness ==
  \E t \in Threads :
    /\ call[t].pc = "opened"
    /\ call[t].compileCount = 0
    /\ call[t].nSpawn = 0
    /\ lastOpen[call[t].bin] = [w |-> call[t].w, id |-> call[t].wasmId]
    /\ sent = <<>>

\* C9: a step sends one CloseMemory for a memory id, to its worker, exactly
\* when it drops the last handle of that id; a step that drops an OpenedWasm
\* sends one CloseWasm to its worker if the worker is alive at the drop and
\* nothing if it is dead; no other CloseMemory or CloseWasm is sent.
C9_CloseOnLastDrop ==
  [][/\ \A m \in MemIds :
          LET closes == {i \in SentOf(sent', "CloseMemory") : sent'[i].id = m}
          IN /\ memRefs[m] = HandleHolders(m)
             /\ Cardinality(closes) =
                  IF HandleHolders(m) > 0 /\ HandleHolders(m)' = 0 THEN 1 ELSE 0
             /\ \A i \in closes : sent'[i].w = memWorker[m]
     /\ \A b \in Binaries :
          (cache[b] # NoCache /\ cache'[b] # cache[b])
            => LET drops == {i \in 1..Len(sent') :
                               /\ sent'[i].kind \in {"drop wasm, alive",
                                                     "drop wasm, dead"}
                               /\ sent'[i].id = cache[b].id
                               /\ sent'[i].w = cache[b].w}
               IN /\ Cardinality(drops) = 1
                  /\ strong'[cache[b].w] > 0
                       => \A i \in drops : sent'[i].kind = "drop wasm, alive"
                  /\ strong[cache[b].w] = 0
                       => \A i \in drops : sent'[i].kind = "drop wasm, dead"
     /\ \A i \in 1..Len(sent') :
          /\ sent'[i].kind = "drop wasm, alive"
               => /\ i < Len(sent')
                  /\ sent'[i + 1] = [sent'[i] EXCEPT !.kind = "CloseWasm"]
                  /\ \A j \in 1..i : sent'[j] # [kind |-> "Terminate",
                                                 w |-> sent'[i].w, id |-> 0]
          /\ sent'[i].kind = "drop wasm, dead"
               => /\ strong'[sent'[i].w] = 0
                  /\ \A j \in 1..Len(sent') :
                       sent'[j] # [sent'[i] EXCEPT !.kind = "CloseWasm"]
          /\ sent'[i].kind = "CloseWasm"
               => /\ i > 1
                  /\ sent'[i - 1] = [sent'[i] EXCEPT !.kind = "drop wasm, alive"]
                  /\ \E b \in Binaries : /\ cache[b].id = sent'[i].id
                                         /\ cache[b].w = sent'[i].w
                                         /\ cache'[b] # cache[b]]_vars

\* C9 witness: a step dropped the last handle of a memory, whose worker then
\* terminated, and after that an OpenedWasm of the dead worker.
C9_Witness ==
  /\ SentOf(sent, "CloseMemory") # {}
  /\ SentOf(sent, "Terminate") # {}
  /\ SentOf(sent, "drop wasm, dead") # {}

\* No caller holds anything: no call is running and every execution state
\* was dropped.
CallersQuiet ==
  \A t \in Threads : call[t].pc = "idle" /\ es[t] = NoState

\* C10: with T_idle = 0, once process has returned and the caller has dropped
\* every handle, and for as long as no caller comes back, the worker's strong
\* count reaches zero and Terminate is sent to it.
C10_EvictionLiveness ==
  \A w \in Workers :
    (CallersQuiet /\ w \in served /\ strong[w] > 0)
      ~> ((strong[w] = 0 /\ term[w] = 1) \/ ~CallersQuiet)

\* C10 witness: after a process call, with the callers quiet and the sweeper
\* asleep, the worker whose backend is evicted has lost its last reference
\* and was sent Terminate.
C10_Witness ==
  \E w \in Workers :
    /\ CallersQuiet /\ w \in served
    /\ strong[w] = 0 /\ term[w] = 1
    /\ \A m \in MemIds : memRefs[m] = 0
    /\ \E c \in Canisters : Lookup(backends, c) = Evicted(w)
    /\ sweeperPc = "sleep"

\* A sweeper pass: scavenge_sandbox_processes has run in this step.
SweeperPass == sweeperPc = "sleep" /\ sweeperPc' = "probe"

\* C11: with T_idle = 0, once a process call has returned and its handles are
\* dropped, a sweeper pass takes the canister's inactive Active slot to
\* Evicted, and a pass that finds the slot Evicted with a dead weak reference
\* removes the slot, so that the canister is absent from the registry; the
\* worker of such a slot has been sent Terminate.
C11_EvictedThenAbsent ==
  [][\A c \in Canisters :
       LET slot == Lookup(backends, c)
       IN (/\ SweeperPass /\ CallersQuiet
           /\ slot.tag \in {"Active", "Evicted"} /\ slot.w \in served) =>
            /\ (slot.tag = "Active" /\ Inactive(slot)) =>
                 Lookup(backends', c) = Evicted(slot.w)
            /\ (slot.tag = "Evicted" /\ strong[slot.w] = 0) =>
                 /\ term[slot.w] = 1
                 /\ Lookup(backends', c) = Absent
                 /\ \A e \in backends' : e.c # c]_vars

\* The watcher of worker w has seen the exit of its child in this step.
Observed(w) == proc[w].st = "exited" /\ proc'[w].st = "observed"

\* C12: when the watcher of a worker sees its child's exit while the worker
\* is still strongly referenced, the controller panics, naming that worker;
\* when the last strong reference is gone the watcher returns silently. An
\* exit after the Terminate sent on drop never produces a panic, and a panic
\* for a sandbox exit only ever comes from a watcher.
C12_WatcherPanicsIffReferenced ==
  [][/\ \A w \in Workers :
          Observed(w) =>
            /\ IF strong[w] > 0
               THEN /\ panicked' = "sandbox exit"
                    /\ panicMsg'.pid = w
                    /\ panicMsg'.canister = proc[w].canister
               ELSE panicked' = "" /\ panicMsg' = NoMessage
            /\ term[w] = 1 => panicked' = ""
     /\ (panicked = "" /\ panicked' = "sandbox exit") =>
          \E w \in Workers : Observed(w) /\ term[w] = 0 /\ strong[w] > 0]_vars

\* C12 witness: the watcher of one worker has returned silently after the
\* Terminate sent on drop, and the exit of another, still referenced, worker
\* has panicked the controller.
C12_Witness ==
  \E w1, w2 \in Workers :
    /\ w1 # w2
    /\ proc[w1].st = "observed" /\ term[w1] = 1 /\ strong[w1] = 0
    /\ proc[w2].st = "observed" /\ term[w2] = 0 /\ strong[w2] > 0
    /\ panicked = "sandbox exit" /\ panicMsg.pid = w2

\* C13: panic_due_to_sandbox_exit always panics, and its message names the
\* canister and the pid of the exited process and gives the cause by
\* priority: the status code if there is one, otherwise the signal,
\* otherwise "unknown reason".
C13_PanicMessage ==
  /\ (panicMsg # NoMessage) <=> (panicked = "sandbox exit")
  /\ panicked = "sandbox exit" =>
       \E w \in Workers :
         /\ proc[w].st = "observed" /\ strong[w] > 0
         /\ panicMsg.canister = proc[w].canister /\ panicMsg.canister \in Canisters
         /\ panicMsg.pid = w
         /\ proc[w].code.some =>
              panicMsg.cause = "exited with status code" /\ panicMsg.n = proc[w].code.v
         /\ (~proc[w].code.some /\ proc[w].signal.some) =>
              /\ panicMsg.cause = "exited due to signal"
              /\ panicMsg.n = proc[w].signal.v
         /\ (~proc[w].code.some /\ ~proc[w].signal.some) =>
              panicMsg.cause = "exited for unknown reason"

\* C13 witness: a worker killed by signal 9 while a call is waiting for its
\* execution: the controller has panicked with "exited due to signal 9".
C13_Witness ==
  \E t \in Threads, w \in Workers :
    /\ call[t].pc = "waiting" /\ call[t].w = w /\ call[t].out = NoReply
    /\ proc[w].signal = Some(9) /\ proc[w].code = None
    /\ panicked = "sandbox exit"
    /\ panicMsg = [canister |-> call[t].c, pid |-> w,
                   cause |-> "exited due to signal", n |-> 9]

\* C14: a process call that has dispatched StartExecution leaves its wait
\* only after an output was delivered to it, and an output is delivered to it
\* only by the ExecutionFinished of its own exec_id, sent by its worker while
\* that worker's process runs. While no reply has arrived the call stays as
\* it is, and once the worker's process has exited none ever arrives: there
\* is no timeout and no cancellation.
C14_ReturnsOnlyAfterOwnReply ==
  [][\A t \in Threads :
       (call[t].pc = "waiting" /\ call[t].op = "process") =>
         /\ call'[t].pc # "waiting" => call[t].out.kind = "exec"
         /\ call[t].out.kind = "none" =>
              \/ call'[t] = call[t]
              \/ /\ proc[call[t].w].st = "running"
                 /\ call[t].req \in started /\ call[t].req \notin started'
                 /\ call[t].req.id = call[t].execId
                 /\ call'[t] = [call[t] EXCEPT !.out = call'[t].out]
                 /\ call'[t].out \in Replies]_vars

\* C14 witness: a call waits for its execution, no reply has arrived, and the
\* worker's process has exited: the call cannot return.
C14_Witness ==
  \E t \in Threads :
    /\ call[t].pc = "waiting" /\ call[t].op = "process" /\ call[t].out = NoReply
    /\ call[t].req \in started
    /\ proc[call[t].w].st = "exited"
    /\ panicked = ""

\* A process call that spawned its worker and was given unsynced, empty wasm
\* and stable memories.
Cold(c) ==
  /\ c.op = "process" /\ c.nSpawn = 1
  /\ c.input.wmem = DefaultMemory /\ c.input.smem = DefaultMemory

\* How many entries of this kind a step has sent.
Count(q, kind) == Cardinality(SentOf(q, kind))

\* C15: cold start with one caller. A process call for a canister that has
\* no slot spawns one worker; if its memories are unsynced and empty, the call
\* sends one OpenWasm that is acknowledged, two OpenMemory and one
\* StartExecution, and when it returns with a successful output it has
\* consumed the one ExecutionFinished of its execution, returns that output,
\* and both memory bindings of the state are Synced.
C15_ColdStart ==
  [][\A t \in Threads :
       /\ (/\ call[t].pc = "idle" /\ call'[t].pc = "acquired"
           /\ Lookup(backends, call'[t].c) = Absent) =>
            /\ call'[t].nSpawn = 1
            /\ strong[call'[t].w] = 0 /\ strong'[call'[t].w] = 2
            /\ Lookup(backends', call'[t].c) = Active(call'[t].w, 0)
       /\ Cold(call[t]) =>
            /\ (call[t].pc = "acquired" /\ call'[t].pc = "opened") =>
                 /\ Count(sent', "OpenWasm") = 1
                 /\ call'[t].nOpenWasm = 1 /\ call'[t].compileCount = 1
            /\ (call[t].pc = "opened" /\ call'[t].pc = "waiting") =>
                 /\ Count(sent', "OpenMemory") = 2
                 /\ Count(sent', "StartExecution") = 1
                 /\ Count(sent', "OpenWasm") = 0
            /\ (call[t].pc = "waiting" /\ call'[t].pc = "returned"
                  /\ call[t].out.ok) =>
                 /\ call'[t].nSpawn = 1 /\ call'[t].nOpenWasm = 1
                 /\ call'[t].nOpenMem = 2 /\ call'[t].nStart = 1
                 /\ call'[t].out = call[t].out /\ call[t].out \in Replies
                 /\ call[t].req \notin started
                 /\ \A e \in active'[call[t].w] : e.id # call[t].execId
                 /\ es'[t].wmem.sb # 0 /\ es'[t].smem.sb # 0
                 /\ call[t].out.hasState =>
                      /\ es'[t].wmem.sb = call[t].nextW
                      /\ es'[t].smem.sb = call[t].nextS]_vars

\* C15 witness: the first call of a behaviour, a cold process call, has
\* returned a successful output with state.
C15_Witness ==
  \E t \in Threads :
    /\ Returned(t, "process") /\ Cold(call[t]) /\ calls = 1
    /\ call[t].out.ok /\ call[t].out.hasState
    /\ call[t].nOpenWasm = 1 /\ call[t].nOpenMem = 2 /\ call[t].nStart = 1
    /\ es[t].wmem.sb # 0 /\ es[t].smem.sb # 0

\* A process call that found its worker in the registry, where a process
\* call has returned on that worker before.
Warm(c) == c.op = "process" /\ c.nSpawn = 0 /\ c.w \in served

\* C16: with T_idle > 0 and sequential calls, a process call made for a
\* canister whose slot is Active and not older than the threshold, after a
\* process call returned on that worker, spawns nothing and gets the same
\* worker; if it brings the binary last opened on that worker it sends no
\* OpenWasm, then and until it returns, and it sends one StartExecution. A
\* sweeper pass leaves such a slot as it is.
C16_WarmReuse ==
  [][/\ tIdle > 0
     /\ \A c \in Canisters :
          LET slot == Lookup(backends, c)
          IN (slot.tag = "Active" /\ slot.age <= tIdle /\ slot.w \in served) =>
               /\ SweeperPass => Lookup(backends', c) = slot /\ term' = term
               /\ \A t \in Threads :
                    (/\ call[t].pc = "idle" /\ call'[t].pc = "acquired"
                     /\ call'[t].c = c) =>
                      /\ call'[t].nSpawn = 0 /\ call'[t].w = slot.w
                      /\ Lookup(backends', c) = Active(slot.w, 0)
     /\ \A t \in Threads :
          Warm(call[t]) =>
            /\ (/\ call[t].pc = "acquired" /\ call'[t] # call[t]
                 /\ lastOpen[call[t].bin].w = call[t].w) =>
                 /\ call'[t].pc = "opened"
                 /\ Count(sent', "OpenWasm") = 0
                 /\ call'[t].nOpenWasm = 0 /\ call'[t].compileCount = 0
            /\ (call[t].pc = "opened" /\ call'[t].pc = "waiting") =>
                 /\ Count(sent', "StartExecution") = 1
                 /\ Count(sent', "OpenWasm") = 0
                 /\ call'[t].nOpenWasm = call[t].nOpenWasm
            /\ (call[t].pc = "waiting" /\ call'[t].pc = "returned") =>
                 /\ call'[t].nSpawn = 0 /\ call'[t].nStart = 1
                 /\ call'[t].nOpenWasm = call[t].nOpenWasm]_vars

\* C16 witness: the second of two process calls has returned; between the
\* calls the sweeper ran and time passed, but less than the threshold.
C16_Witness ==
  \E t \in Threads, c \in Canisters :
    /\ tIdle > 0 /\ calls = 2
    /\ Returned(t, "process") /\ Warm(call[t]) /\ call[t].c = c
    /\ call[t].nStart = 1 /\ call[t].nOpenWasm = 0
    /\ lastOpen[call[t].bin].w = call[t].w
    /\ Lookup(backends, c) = Active(call[t].w, tIdle)
    /\ \A w \in Workers : term[w] = 0 /\ (strong[w] > 0 => w = call[t].w)

\* The entries the registry holds for canister c.
EntriesOf(c) == {e \in backends : e.c = c}

LiveWorkers ==
  {e.slot.w : e \in {x \in backends :
                       \/ x.slot.tag = "Active"
                       \/ x.slot.tag = "Evicted" /\ strong[x.slot.w] > 0}}

\* The elements of a sequence.
Range(q) == {q[i] : i \in 1..Len(q)}

\* The value of the one entry of this kind in q.
Published(q, kind) == q[CHOOSE i \in SentOf(q, kind) : TRUE].id

\* The sum, over the workers in S, of what the probe of this kind returned
\* for the worker according to q: its RSS, or nothing if the probe failed.
RECURSIVE RssSum(_, _, _)
RssSum(S, q, kind) ==
  IF S = {} THEN 0
  ELSE LET w == CHOOSE x \in S : TRUE
           rss == IF kind = "anon_rss" THEN AnonRss(w) ELSE MemfdRss(w)
           ok == \E i \in SentOf(q, kind) : q[i].w = w /\ q[i].id = rss
       IN (IF ok THEN rss ELSE 0) + RssSum(S \ {w}, q, kind)

\* C18: the snapshot of a sweeper pass lists, once each, exactly the workers
\* live at snapshot time; every listed worker is probed once for each metric;
\* and the anon-RSS total and the shared-RSS total the pass publishes are the
\* sums of the values probed for those workers, a failed probe adding zero.
C18_MetricsAreSums ==
  [][/\ SweeperPass =>
          /\ Range(sweepList') = LiveWorkers
          /\ Len(sweepList') = Cardinality(LiveWorkers)
     /\ (sweeperPc = "probe" /\ sweeperPc' = "sleep") =>
          LET S == Range(sweepList)
          IN /\ Len(sweepList) = Cardinality(S)
             /\ \A k \in {"anon_rss", "memfd_rss"} :
                  /\ \A w \in Workers :
                       Cardinality({i \in SentOf(sent', k) \cup
                                            SentOf(sent', k \o " failed") :
                                      sent'[i].w = w})
                         = IF w \in S THEN 1 ELSE 0
                  /\ Count(sent', k \o "_total") = 1
                  /\ Published(sent', k \o "_total") = RssSum(S, sent', k)]_vars

\* C18 witness: a pass has probed two live workers; one shared-RSS probe
\* failed; the totals published are the anon RSS of both workers and the
\* shared RSS of the other worker alone.
C18_Witness ==
  \E w1, w2 \in Workers :
    /\ w1 # w2
    /\ sweeperPc = "sleep"
    /\ Count(sent, "anon_rss") = 2 /\ Count(sent, "memfd_rss") = 1
    /\ \E i \in SentOf(sent, "memfd_rss failed") : sent[i].w = w1
    /\ \E i \in SentOf(sent, "memfd_rss") : sent[i].w = w2
    /\ Published(sent, "anon_rss_total") = AnonRss(w1) + AnonRss(w2)
    /\ Published(sent, "memfd_rss_total") = MemfdRss(w2)

\* A step in which pop_seed was called and left a trace.
PopSeedStep ==
  /\ bookRet'.op = "pop_seed"
  /\ bookRet' # bookRet \/ seedRun' # seedRun \/ seedQueue' # seedQueue

\* C19: pop_seed returns the address at the front of the seed queue and
\* pushes it to the back; no call of the book changes the length of the queue
\* or the set of its seeds; as many successive calls as the queue has seeds
\* return the seeds in queue order and leave the queue in the order it had;
\* on an empty queue pop_seed returns NoSeedAddressesFound and changes nothing.
C19_PopSeedRotates ==
  [][/\ Len(seedQueue') = Len(seedQueue)
     /\ Range(seedQueue') = Range(seedQueue)
     /\ seedQueue' # seedQueue => PopSeedStep
     /\ PopSeedStep =>
          /\ knownAddresses' = knownAddresses
          /\ activeAddresses' = activeAddresses
          /\ IF seedQueue = <<>>
             THEN /\ bookRet' = RetErr("pop_seed", "NoSeedAddressesFound")
                  /\ seedQueue' = <<>>
             ELSE /\ bookRet' = RetEntry("pop_seed", "Seed", Head(seedQueue))
                  /\ seedQueue' = Tail(seedQueue) \o <<Head(seedQueue)>>
                  /\ Len(seedRun'.got) = Len(seedQueue) =>
                       /\ seedRun'.got = seedRun'.start
                       /\ seedQueue' = seedRun'.start]_vars

\* C19 witness: two pop_seed calls on a queue of two different seeds have
\* returned the seeds in queue order, and the queue has its order again.
C19_Witness ==
  /\ Len(seedQueue) = 2 /\ seedQueue[1] # seedQueue[2]
  /\ seedRun = [start |-> seedQueue, got |-> seedQueue]
  /\ bookRet = RetEntry("pop_seed", "Seed", seedQueue[2])

\* A step in which pop was called and left a trace.
PopStep ==
  /\ bookRet'.op = "pop"
  /\ \/ bookRet' # bookRet
     \/ knownAddresses' # knownAddresses
     \/ activeAddresses' # activeAddresses

\* C20: pop on an empty known set returns AddressesDepleted and leaves the
\* book unchanged; otherwise it returns Discovered(a) for an a of the known
\* set, removes a from the known set and inserts it into the active set, and
\* leaves every other address and the seed queue where they were.
C20_PopMovesToActive ==
  [][PopStep =>
       /\ seedQueue' = seedQueue /\ network' = network
       /\ IF knownAddresses = {}
          THEN /\ bookRet' = RetErr("pop", "AddressesDepleted")
               /\ knownAddresses' = {}
               /\ activeAddresses' = activeAddresses
          ELSE \E a \in knownAddresses :
                 /\ bookRet' = RetEntry("pop", "Discovered", a)
                 /\ knownAddresses' = knownAddresses \ {a}
                 /\ a \notin knownAddresses'
                 /\ activeAddresses' = activeAddresses \cup {a}]_vars

\* C20 witness: pop has returned an address out of several known ones: it is
\* active and no longer known, another address was active before and still
\* is, and the others are known as before.
C20_Witness ==
  /\ bookRet.op = "pop" /\ bookRet.kind = "Discovered"
  /\ bookRet.addr \in activeAddresses
  /\ bookRet.addr \notin knownAddresses
  /\ knownAddresses # {}
  /\ Cardinality(activeAddresses) = 2

\* The step is a discard of the entry (kind, addr).
DiscardStep(kind, addr) == bookRet' = RetGiven("discard", kind, addr)

\* C21: discard of a Discovered address removes it from the active and from the
\* known set when the book has seeds, and moves it from the active set back to
\* the known set when the book has none; discard of a Seed entry changes
\* neither set; no discard changes the seed queue, and no discard touches an
\* address other than the one it was given.
C21_Discard ==
  [][\A kind \in EntryKinds, addr \in Addrs :
       DiscardStep(kind, addr) =>
         /\ seedQueue' = seedQueue
         /\ kind = "Seed" =>
              /\ knownAddresses' = knownAddresses
              /\ activeAddresses' = activeAddresses
         /\ kind = "Discovered" =>
              /\ activeAddresses' = activeAddresses \ {addr}
              /\ knownAddresses' \ {addr} = knownAddresses \ {addr}
              /\ seedQueue # <<>> => addr \notin knownAddresses'
              /\ (seedQueue = <<>> /\ addr \in activeAddresses) =>
                   addr \in knownAddresses']_vars

\* An address was discarded from a book that has seeds while another address
\* is still active, and it is in neither set.
C21_Witness ==
  \E addr \in Addrs :
    /\ bookRet = RetGiven("discard", "Discovered", addr)
    /\ seedQueue # <<>>
    /\ addr \notin knownAddresses \cup activeAddresses
    /\ activeAddresses # {}
    /\ knownAddresses # {}
\* The positions of msg whose entry passes validation, differs from the sender
\* and is not active.
Eligible(sender, msg, act) ==
  {i \in 1..Len(msg) :
     /\ msg[i].services
     /\ msg[i].socket
     /\ msg[i].addr # sender
     /\ msg[i].addr \notin act}

\* The addresses at the positions P of msg.
AddrsAt(msg, P) == {msg[i].addr : i \in P}

\* The step is an add_many.
AddManyStep == bookRet'.op = "add_many"

\* The number of entries of the message the step's add_many was given.
GivenLen == MsgLen(bookRet'.msg, bookRet'.pad)

\* The statement of C22 as written: an add_many of at most 1000 entries makes
\* known exactly the addresses that were known and the valid, non-sender,
\* non-active addresses of the message, every one that follows a skipped entry
\* included.
C22_AddsEveryValidAddress ==
  [][(AddManyStep /\ GivenLen <= MAX_ADDR_MESSAGE_SIZE) =>
       knownAddresses' =
         knownAddresses \cup
           AddrsAt(bookRet'.msg,
                   Eligible(bookRet'.sender, bookRet'.msg, activeAddresses))]_vars

\* C22: an add_many of at most 1000 entries adds to the known set only
\* addresses of the message that pass validation, differ from the sender and
\* are not active; it skips the other entries and goes on to the entries that
\* follow them, adding the valid ones in message order until the known set
\* holds max_addresses addresses, after which it adds nothing; an add_many of
\* more than 1000 entries returns TooManyAddresses and leaves the book as it
\* was.
C22_AddMany ==
  [][AddManyStep =>
       LET sender == bookRet'.sender
           msg == bookRet'.msg
           max == AddressLimits(network)[2]
           ok == Eligible(sender, msg, activeAddresses)
       IN /\ activeAddresses' = activeAddresses
          /\ seedQueue' = seedQueue
          /\ IF GivenLen > MAX_ADDR_MESSAGE_SIZE
             THEN /\ ~bookRet'.ok
                  /\ bookRet'.err = "TooManyAddresses"
                  /\ knownAddresses' = knownAddresses
             ELSE /\ bookRet'.ok
                  /\ knownAddresses \subseteq knownAddresses'
                  /\ knownAddresses' \subseteq knownAddresses \cup AddrsAt(msg, ok)
                  /\ Cardinality(knownAddresses') < max =>
                       AddrsAt(msg, ok) \subseteq knownAddresses'
                  /\ knownAddresses' # knownAddresses =>
                       Cardinality(knownAddresses') <= max
                  /\ \A i \in ok, j \in ok :
                       (i < j /\ msg[j].addr \in knownAddresses' \ knownAddresses)
                         => msg[i].addr \in knownAddresses']_vars

\* An add_many was given an entry that fails validation and after it a valid
\* address that is not the sender's, which is known now, while another address
\* is active.
C22_Witness ==
  /\ bookRet.op = "add_many"
  /\ bookRet.ok
  /\ Len(bookRet.msg) = 2
  /\ ~bookRet.msg[1].services
  /\ bookRet.msg[2].services
  /\ bookRet.msg[2].socket
  /\ bookRet.msg[2].addr # bookRet.sender
  /\ bookRet.msg[2].addr \in knownAddresses
  /\ activeAddresses # {}
  /\ bookRet.sender \notin knownAddresses \cup activeAddresses
\* The kinds of log entries that are requests on a worker's RPC stream.
RpcKinds ==
  {"Terminate", "CloseMemory", "CloseWasm", "OpenWasm", "OpenMemory",
   "StartExecution", "CreateExecutionState"}

\* The kinds of log entries that are reads of a process's OS metrics.
ProbeKinds == {"anon_rss", "memfd_rss", "anon_rss failed", "memfd_rss failed"}

\* The registry mutex is held when entry i of the step's log q happens.
LockedAt(q, i) ==
  Cardinality({j \in 1..(i - 1) : q[j].kind = "lock backends"}) >
    Cardinality({j \in 1..(i - 1) : q[j].kind = "unlock backends"})

\* C23: no step spawns a worker process, sends a request to a worker or probes
\* OS metrics while it holds the registry mutex.
C23_NothingSlowUnderRegistryLock ==
  \A i \in 1..Len(sent) :
    sent[i].kind \in {"spawn"} \cup RpcKinds \cup ProbeKinds => ~LockedAt(sent, i)
\* The step is the get_sandbox_process of a call of thread t.
AcquireStep(t) == call[t].pc = "idle" /\ call'[t].pc = "acquired"

\* C24: when a caller has missed and spawned a worker for a canister and has
\* not gone on yet, and a second caller's acquire for the same canister, made
\* concurrently, completes, the second caller has spawned a worker of its own
\* and this worker has replaced the first in the registry. (The claim adds
\* that the first worker is then dropped and sent Terminate.)
C24_ConcurrentMissesBothSpawn ==
  [][\A t1 \in Threads, t2 \in Threads :
       (/\ t1 # t2
        /\ call[t1].pc = "acquired"
        /\ call[t1].nSpawn = 1
        /\ AcquireStep(t2)
        /\ call'[t2].c = call[t1].c)
         => /\ call'[t2].nSpawn = 1
            /\ call'[t2].w # call[t1].w
            /\ Lookup(backends', call[t1].c).w = call'[t2].w]_vars
\* C25: no get_sandbox_process and no sweeper pass finds a slot of the registry
\* in the Empty state when it takes the registry mutex.
C25_NoEmptySlotAtLockTime ==
  [][(SweeperPass \/ \E t \in Threads : AcquireStep(t)) =>
       \A e \in backends : e.slot.tag # "Empty"]_vars
\* The slot holds a worker that get_sandbox_process can return: it is Active,
\* or Evicted with a weak reference that upgrades.
LiveSlot(slot) ==
  \/ slot.tag = "Active"
  \/ slot.tag = "Evicted" /\ strong[slot.w] > 0

\* C26: a get_sandbox_process that finds a live worker in the canister's slot
\* returns that worker, spawns nothing and leaves the slot Evicted when
\* T_idle = 0 and Active with last_used = now when T_idle > 0; one that finds
\* the slot absent, Empty or Evicted with a dead weak reference spawns exactly
\* one worker, returns it and installs it as the canister's slot. No other
\* canister's slot changes.
C26_Acquire ==
  [][\A t \in Threads :
       AcquireStep(t) =>
         LET c == call'[t].c
             slot == Lookup(backends, c)
             w == call'[t].w
         IN /\ \A e \in backends : e.c # c => e \in backends'
            /\ \A e \in backends' : e.c # c => e \in backends
            /\ LiveSlot(slot) =>
                 /\ w = slot.w
                 /\ call'[t].nSpawn = 0
                 /\ Count(sent', "spawn") = 0
                 /\ tIdle = 0 => Lookup(backends', c) = Evicted(w)
                 /\ tIdle > 0 => Lookup(backends', c) = Active(w, 0)
            /\ ~LiveSlot(slot) =>
                 /\ slot.tag \in {"Absent", "Empty", "Evicted"}
                 /\ call'[t].nSpawn = 1
                 /\ SentOf(sent', "spawn") # {}
                 /\ \A i \in SentOf(sent', "spawn") : sent'[i].w = w
                 /\ Count(sent', "spawn") = 1
                 /\ strong[w] = 0
                 /\ strong'[w] > 0
                 /\ proc'[w] = Running(c)
                 /\ Lookup(backends', c) = Active(w, 0)]_vars

\* With T_idle > 0 a call has just acquired, without a spawn, the worker an
\* earlier call was served by, and the slot is Active with age 0.
C26_Witness ==
  \E t \in Threads :
    /\ tIdle > 0
    /\ call[t].pc = "acquired"
    /\ call[t].nSpawn = 0
    /\ call[t].w \in served
    /\ Lookup(backends, call[t].c) = Active(call[t].w, 0)
\* C27: a sweeper pass demotes an Active slot to Evicted exactly when its age
\* now - last_used is strictly greater than T_idle; an Active slot within the
\* threshold stays as it is, with its strong reference and its last_used; an
\* Evicted slot whose worker is alive stays Evicted; a slot that still refers
\* to a worker refers to the worker it referred to before; the pass spawns no
\* worker and adds no slot.
C27_SweeperPass ==
  [][SweeperPass =>
       /\ Count(sent', "spawn") = 0
       /\ proc' = proc
       /\ {e.c : e \in backends'} \subseteq {e.c : e \in backends}
       /\ Cardinality(backends') <= Cardinality(backends)
       /\ \A e \in backends :
            LET new == Lookup(backends', e.c)
            IN /\ new.tag \in {"Active", "Evicted"} => new.w = e.slot.w
               /\ e.slot.tag = "Active" =>
                    /\ new = Evicted(e.slot.w) <=> e.slot.age > tIdle
                    /\ e.slot.age <= tIdle =>
                         /\ new = e.slot
                         /\ strong'[e.slot.w] > 0
               /\ (e.slot.tag = "Evicted" /\ strong[e.slot.w] > 0) =>
                    new = e.slot]_vars

\* With T_idle > 0 a pass has just left a slot Active whose age is exactly the
\* threshold, and has its worker in the list it returned.
C27_Witness ==
  /\ tIdle > 0
  /\ sweeperPc = "probe"
  /\ \E e \in backends :
       /\ e.slot.tag = "Active"
       /\ e.slot.age = tIdle
       /\ \E i \in 1..Len(sweepList) : sweepList[i] = e.slot.w
\* How many entries of the sequence q are equal to x.
Occurrences(q, x) == Cardinality({i \in 1..Len(q) : q[i] = x})

\* The strong references of worker w that exist: the Active slots of the
\* registry, the locals of the calls that have acquired w and not returned, the
\* local of a Drop for OpenedWasm that has upgraded, the OpenedMemory objects
\* of w, and the entries of the sweeper's list.
Holders(w) ==
  Cardinality({e \in backends : e.slot.tag = "Active" /\ e.slot.w = w})
  + Cardinality({t \in Threads :
                  /\ call[t].pc \in {"acquired", "opened", "waiting", "dropping"}
                  /\ call[t].w = w})
  + Cardinality({m \in MemIds : memRefs[m] > 0 /\ memWorker[m] = w})
  + Occurrences(sweepList, w)

\* The Terminate requests to worker w in the log q.
Terminates(q, w) == {i \in SentOf(q, "Terminate") : q[i].w = w}

\* C28: the strong count of a worker is the number of its holders; a step
\* sends Terminate to a worker exactly when it drops the worker's last strong
\* reference, and then once; no step sends Terminate to a worker that any
\* holder still refers to, and a worker is sent Terminate at most once between
\* its spawn and the reuse of its index.
C28_TerminateOnLastDrop ==
  /\ [](\A w \in Workers :
          /\ strong[w] = Holders(w)
          /\ term[w] <= 1
          /\ strong[w] > 0 => term[w] = 0)
  /\ [][\A w \in Workers :
          /\ Cardinality(Terminates(sent', w)) =
               IF strong[w] > 0 /\ strong'[w] = 0 THEN 1 ELSE 0
          /\ Terminates(sent', w) # {} => Holders(w)' = 0]_vars

\* Drop for OpenedWasm held the last strong reference of its worker: the step
\* sent CloseWasm and then Terminate to the worker, and nothing else.
C28_Witness ==
  /\ Len(sent) = 2
  /\ sent[1].kind = "CloseWasm"
  /\ sent[2] = [kind |-> "Terminate", w |-> sent[1].w, id |-> 0]
  /\ strong[sent[1].w] = 0
  /\ term[sent[1].w] = 1
\* The entry of a waiting call in the registry of its worker.
SinkOf(t) == [id |-> call[t].execId, t |-> t]

\* The step puts an execution output into the channel on which the process
\* call of thread t waits.
Delivered(t) ==
  /\ call[t].op = "process"
  /\ call[t].pc = "waiting" /\ call'[t].pc = "waiting"
  /\ call'[t].out # call[t].out

\* C29: the exec ids registered on a worker are distinct and every process
\* call that waits without an output has its own sink registered on its worker;
\* an output is delivered to a waiting call only if it has none yet and its
\* sink is registered, by the ExecutionFinished of its own execution,
\* and the delivery removes that sink and no other and changes no other call.
C29_RoutedByExecId ==
  /\ [](\A w \in Workers :
          /\ \A e1 \in active[w], e2 \in active[w] : e1.id = e2.id => e1 = e2
          /\ \A t \in Threads :
               (/\ call[t].pc = "waiting" /\ call[t].op = "process"
                /\ call[t].w = w /\ call[t].out = NoReply)
                 => SinkOf(t) \in active[w])
  /\ [][\A t \in Threads :
          Delivered(t) =>
            /\ call[t].out = NoReply
            /\ call'[t].out \in Replies
            /\ SinkOf(t) \in active[call[t].w]
            /\ call[t].req.id = call[t].execId
            /\ call[t].req \in started /\ call[t].req \notin started'
            /\ started' = started \ {call[t].req}
            /\ active' = [active EXCEPT ![call[t].w] = @ \ {SinkOf(t)}]
            /\ \A u \in Threads \ {t} : call'[u] = call[u]]_vars

\* Two executions are in flight on the same worker; one call has been given
\* its output and the sink of the other is the only one still registered.
C29_Witness ==
  \E t \in Threads, u \in Threads :
    /\ t # u
    /\ call[t].pc = "waiting" /\ call[u].pc = "waiting"
    /\ call[t].op = "process" /\ call[u].op = "process"
    /\ call[t].w = call[u].w
    /\ call[t].out.kind = "exec"
    /\ call[u].out = NoReply
    /\ active[call[t].w] = {SinkOf(u)}
\* The step sends the StartExecution of the process call of thread t.
StartStep(t) == call[t].pc = "opened" /\ call'[t].pc = "waiting"

\* What is open on the workers just before entry i of the step's log q is
\* sent.
OpenBefore(q, i) == Deliver(remote, SubSeq(q, 1, i - 1))

\* C30: when a StartExecution is sent on a worker's stream, the stream has
\* before it the acknowledged OpenWasm of the wasm id the request names, and
\* for its wasm memory id and for its stable memory id either the OpenMemory
\* of that id or a StartExecution or CreateExecutionState that named the id as
\* a next memory id, with no close of any of them in between.
C30_StartExecutionAfterOpens ==
  [][\A t \in Threads :
       StartStep(t) =>
         LET req == call'[t].req
             starts == {i \in SentOf(sent', "StartExecution") : sent'[i].id = req.id}
         IN /\ Cardinality(starts) = 1
            /\ \A i \in starts :
                 /\ sent'[i].w = call[t].w
                 /\ req.w = call[t].w
                 /\ req.wasmId \in OpenBefore(sent', i)[req.w].wasm
                 /\ req.wmem \in OpenBefore(sent', i)[req.w].mem
                 /\ req.smem \in OpenBefore(sent', i)[req.w].mem]_vars

\* A StartExecution has been sent whose wasm memory was named as a next memory
\* id by an earlier request and whose stable memory was opened by an OpenMemory
\* of the same step.
C30_Witness ==
  \E t \in Threads :
    /\ call[t].pc = "waiting"
    /\ call[t].op = "process"
    /\ call[t].nOpenMem = 1
    /\ \E i \in SentOf(sent, "OpenMemory"), j \in SentOf(sent, "StartExecution") :
         /\ i < j
         /\ sent[i].id = call[t].req.smem
         /\ sent[j].id = call[t].req.id
    /\ SentOf(sent, "OpenMemory") # {}
    /\ \A i \in SentOf(sent, "OpenMemory") : sent[i].id # call[t].req.wmem
\* The memory is Unsynced with pages that differ from the empty page map.
DirtyUnsynced(mem) == mem.sb = 0 /\ mem.pm # EmptyPM

\* C31: no memory of an execution state is Unsynced with a page delta that is
\* not empty, and the assertion of open_remote_memory has never failed.
C31_UnsyncedIsClean ==
  /\ panicked # "open_remote_memory: unsynced memory is dirty"
  /\ \A t \in Threads :
       /\ ~DirtyUnsynced(es[t].wmem)
       /\ ~DirtyUnsynced(es[t].smem)

\* A process call has passed open_remote_memory with a state that
\* create_execution_state produced: the wasm memory was Synced and carried a
\* delta, the stable memory was Unsynced and empty and was opened by this call.
C31_Witness ==
  \E t \in Threads :
    /\ call[t].pc = "waiting"
    /\ call[t].op = "process"
    /\ call[t].input.wmem.sb # 0
    /\ call[t].input.wmem.pm # EmptyPM
    /\ call[t].input.smem = DefaultMemory
    /\ call[t].nOpenMem = 1
    /\ es[t].smem.sb # 0

\* The binding of shared memory k: 0 while it is Unsynced, else the MemoryId.
BindingOf(k) == MemoryOf(es[1], k).sb

\* Caller t returns from open_remote_memory on shared memory k in this step.
OpenMemoryStep(t, k) ==
  HandleOf(call[t], k) = 0 /\ HandleOf(call'[t], k) # 0

\* C32: open_remote_memory on a Synced memory returns the stored MemoryId and
\* sends nothing; on an Unsynced memory it sends exactly one OpenMemory, with
\* an id no handle and no worker knows, and leaves the memory Synced to that
\* id. Over any interleaving of calls by two callers on the same memory, the
\* worker has been sent one OpenMemory per bound memory and no more, a bound
\* memory stays bound to the same id, and every handle returned is that id.
C32_OpenMemoryOnce ==
  /\ [](\A k \in MemoryKinds : \A t \in Threads :
          HandleOf(call[t], k) # 0 => HandleOf(call[t], k) = BindingOf(k))
  /\ [](remote[1].mem = {BindingOf(k) : k \in MemoryKinds} \ {0})
  /\ [](BindingOf("wasm") # 0 => BindingOf("wasm") # BindingOf("stable"))
  /\ [][\A k \in MemoryKinds :
          /\ BindingOf(k) # 0 => MemoryOf(es'[1], k).sb = BindingOf(k)
          /\ \A t \in Threads :
               OpenMemoryStep(t, k) =>
                 IF BindingOf(k) # 0
                 THEN /\ HandleOf(call'[t], k) = BindingOf(k)
                      /\ sent' = <<>>
                      /\ memRefs'[BindingOf(k)] = memRefs[BindingOf(k)] + 1
                 ELSE /\ sent' = <<[kind |-> "OpenMemory", w |-> call[t].w,
                                    id |-> HandleOf(call'[t], k)]>>
                      /\ memRefs[HandleOf(call'[t], k)] = 0
                      /\ \A w \in Workers :
                           HandleOf(call'[t], k) \notin remote[w].mem
                      /\ MemoryOf(es'[1], k).sb = HandleOf(call'[t], k)]_vars

\* Both callers hold a handle to the shared wasm memory, which is one id with
\* three references (the binding and the two handles). The stable memory was
\* opened too and its handles were dropped again, so it stays bound. The two
\* callers together counted two OpenMemory requests, one per memory, and the
\* last step sent nothing.
C32_Witness ==
  /\ call[1].wmh # 0
  /\ call[2].wmh = call[1].wmh
  /\ memRefs[call[1].wmh] = 3
  /\ call[1].nOpenMem + call[2].nOpenMem = 2
  /\ BindingOf("stable") # 0
  /\ call[1].smh = 0
  /\ call[2].smh = 0
  /\ sent = <<>>

\* Caller t returns from open_wasm with a module id in this step.
OpenWasmStep(t) == call[t].pc = "acquired" /\ call'[t].pc = "opened"

\* C33: open_wasm runs under the cache lock of the binary, so calls for the
\* same binary happen one after the other. A call never replaces a cached
\* handle whose worker is still alive, and the module id a caller returns is
\* the one the cache holds for that binary, on the caller's worker, when the
\* call returns; two callers that have both returned for the same binary and
\* the same worker hold the same module id.
C33_OpenWasmSerialized ==
  /\ [](\A t, u \in Threads :
          /\ call[t].pc = "opened" /\ call[u].pc = "opened"
          /\ call[t].bin = call[u].bin /\ call[t].w = call[u].w
          => call[t].wasmId = call[u].wasmId)
  /\ [][\A t \in Threads :
          OpenWasmStep(t) =>
            /\ cache'[call[t].bin] = [w |-> call[t].w, id |-> call'[t].wasmId]
            /\ (cache[call[t].bin] # NoCache /\ Upgrades(Heap, cache[call[t].bin].w))
                 => cache'[call[t].bin] = cache[call[t].bin]]_vars

\* Two callers were inside open_wasm for the same binary and worker; both have
\* returned with the same module id, one after compiling and the other from
\* the cache.
C33_Witness ==
  /\ call[1].pc = "opened"
  /\ call[2].pc = "opened"
  /\ call[1].bin = call[2].bin
  /\ call[1].w = call[2].w
  /\ call[1].wasmId = call[2].wasmId
  /\ call[1].compileCount + call[2].compileCount = 1
  /\ cache[call[1].bin].id = call[1].wasmId

\* create_execution_state of caller t returns in this step.
CreateReturns(t) ==
  call[t].op = "create" /\ call[t].pc # "returned" /\ call'[t].pc = "returned"

\* The CreateExecutionState requests in a log of sent messages.
CreateRequests(q) == {i \in 1..Len(q) : q[i].kind = "CreateExecutionState"}

\* C34: when create_execution_state returns a state, its wasm memory has the
\* size of the reply and the empty page map merged with the reply's delta and
\* is Synced to the next_wasm_memory_id this call minted and named in its one
\* CreateExecutionState request, and its stable memory is the default one
\* (empty, Unsynced). When opening the module fails, the call returns the
\* error with no state and sends no CreateExecutionState. When
\* CreateExecutionState fails, the call returns the error and no state.
C34_CreateExecutionState ==
  [][\A t \in Threads :
       CreateReturns(t) =>
         IF call'[t].out.ok
         THEN /\ call[t].pc = "opened"
              /\ es'[t].wmem.size = call'[t].out.wsize
              /\ es'[t].wmem.pm = Merge(EmptyPM, call'[t].out.wdelta)
              /\ es'[t].wmem.sb # 0
              /\ memRefs[es'[t].wmem.sb] = 0
              /\ memRefs'[es'[t].wmem.sb] = 1
              /\ \E i \in CreateRequests(sent') :
                   /\ CreateRequests(sent') = {i}
                   /\ sent'[i].w = call[t].w
                   /\ sent'[i].id = es'[t].wmem.sb
              /\ es'[t].smem = DefaultMemory
              /\ es'[t].bin = call[t].bin
              /\ es'[t].globals = call'[t].out.globals
         ELSE /\ es'[t] = NoState
              /\ call'[t].out.err # ""
              /\ call[t].pc = "acquired" =>
                   /\ call'[t].out.err = "compile"
                   /\ CreateRequests(sent') = {}
              /\ call[t].pc = "opened" =>
                   /\ call'[t].out.err = "create"
                   /\ Cardinality(CreateRequests(sent')) = 1]_vars

\* A create_execution_state call has returned a state built from a reply that
\* carried a delta, while the other caller's create_execution_state has
\* returned an error without a state.
C34_Witness ==
  \E t, u \in Threads :
    /\ call[t].op = "create" /\ call[t].pc = "returned"
    /\ call[t].out.ok
    /\ es[t].wmem.pm = DeltaAll
    /\ es[t].wmem.sb = call[t].nextW
    /\ es[t].smem = DefaultMemory
    /\ call[u].op = "create" /\ call[u].pc = "returned"
    /\ ~call[u].out.ok
    /\ es[u] = NoState

\* The SandboxProcess objects spawned for canister c that are still alive.
LiveWorkersOf(c) == {w \in Workers : strong[w] > 0 /\ proc[w].canister = c}

\* C35: for each canister at most one SandboxProcess spawned for it has a
\* positive strong count, and a get_sandbox_process that spawns finds no live
\* SandboxProcess of the canister: the slot is absent, Empty or Evicted with a
\* strong count of zero.
C35_OneLiveWorkerPerCanister ==
  /\ [](\A c \in Canisters : Cardinality(LiveWorkersOf(c)) <= 1)
  /\ [][\A t \in Threads :
          (AcquireStep(t) /\ call'[t].nSpawn = 1) =>
            /\ LiveWorkersOf(call'[t].c) = {}
            /\ ~LiveSlot(Lookup(backends, call'[t].c))
            /\ {w \in Workers : strong'[w] > 0 /\ proc'[w].canister = call'[t].c}
                 = {call'[t].w}]_vars

\* A caller has just spawned a worker for a canister whose earlier worker is
\* dead and was sent Terminate; the new worker is the canister's only live one.
C35_Witness ==
  \E t \in Threads, w0 \in Workers :
    /\ call[t].pc = "acquired"
    /\ call[t].nSpawn = 1
    /\ w0 # call[t].w
    /\ proc[w0].canister = call[t].c
    /\ term[w0] = 1
    /\ strong[w0] = 0
    /\ LiveWorkersOf(call[t].c) = {call[t].w}

\* The requests the claim lists: everything on a worker's stream but Terminate.
StreamKinds ==
  {"OpenWasm", "OpenMemory", "StartExecution", "CreateExecutionState",
   "CloseWasm", "CloseMemory"}

\* Entry i of the log q goes to a worker that was already sent Terminate:
\* in an earlier step (told by terminated) or earlier in q, with no spawn of a
\* new process under the same index in between.
AfterTerminate(terminated, q, i) ==
  LET w == q[i].w
      marks == {j \in 1..(i - 1) : q[j].w = w /\ q[j].kind \in {"spawn", "Terminate"}}
  IN IF marks = {}
     THEN terminated[w] > 0
     ELSE q[CHOOSE j \in marks : \A k \in marks : k <= j].kind = "Terminate"

\* C36: Terminate is the last request on the stream of a worker. No step
\* sends OpenWasm, OpenMemory, StartExecution, CreateExecutionState, CloseWasm
\* or CloseMemory to a worker that was sent Terminate, in an earlier step or
\* earlier in the same step.
C36_TerminateIsLast ==
  [][\A i \in 1..Len(sent') :
       sent'[i].kind \in StreamKinds => ~AfterTerminate(term, sent', i)]_vars

\* The last handle of a memory was the last holder of its worker: the step
\* sent CloseMemory and, after it, Terminate to that worker.
C36_Witness ==
  \E i \in 1..Len(sent) :
    /\ i < Len(sent)
    /\ sent[i].kind = "CloseMemory"
    /\ sent[Len(sent)] = [kind |-> "Terminate", w |-> sent[i].w, id |-> 0]
    /\ term[sent[i].w] = 1
    /\ strong[sent[i].w] = 0

\* The reply to the execution of thread t has not been received by process().
InFlight(t) == call[t].op = "process" /\ call[t].pc = "waiting"

\* The module and the two memories a StartExecution request names are open on
\* the worker it went to: the worker was told of each and was sent no
\* CloseWasm or CloseMemory for it, and no Terminate, since.
OpenOnWorker(req) ==
  /\ req.wasmId \in remote[req.w].wasm
  /\ req.wmem \in remote[req.w].mem
  /\ req.smem \in remote[req.w].mem

StateHoldsHandleOf(w) ==
  \E u \in Threads, k \in MemoryKinds :
    /\ MemoryOf(es[u], k).sb # 0
    /\ memWorker[MemoryOf(es[u], k).sb] = w

\* C38: with T_idle = 0, while some caller keeps an execution state with a
\* Synced memory handle of a worker, every get_sandbox_process for the
\* worker's canister returns that worker and spawns nothing, whatever the
\* sweeper has done to the slot; the slot is left Evicted.
C38_HandleKeepsWorker ==
  [][\A t \in Threads, w \in Workers :
       (/\ tIdle = 0
        /\ AcquireStep(t)
        /\ StateHoldsHandleOf(w)
        /\ proc[w].canister = call'[t].c)
         => /\ call'[t].w = w
            /\ call'[t].nSpawn = 0
            /\ proc' = proc
            /\ Lookup(backends', call'[t].c) = Evicted(w)]_vars

\* A process call has acquired, without a spawn, the worker that an earlier
\* call ran on; the slot is Evicted, and apart from this caller's new
\* reference only the two memory handles of the caller's state hold the
\* worker.
C38_Witness ==
  \E t \in Threads :
    /\ call[t].pc = "acquired"
    /\ call[t].op = "process"
    /\ call[t].nSpawn = 0
    /\ call[t].w \in served
    /\ es[t].wmem.sb # 0 /\ memWorker[es[t].wmem.sb] = call[t].w
    /\ es[t].smem.sb # 0 /\ memWorker[es[t].smem.sb] = call[t].w
    /\ Lookup(backends, call[t].c) = Evicted(call[t].w)
    /\ strong[call[t].w] = 3
    /\ sweeperPc = "sleep"
    /\ \A u \in Threads \ {t} : call[u].pc = "idle" /\ es[u] = NoState

\* C39: the number of addresses stored in the book, size(), is at most
\* max_addresses, in a book that started within the limit, after any sequence
\* of add_many, pop, remove_from_active and discard.
C39_SizeWithinMax ==
  Cardinality(knownAddresses) <= AddressLimits(network)[2]

\* C40: no address is in the known set and in the active set at once, after
\* any sequence of add_many, pop, pop_seed, remove_from_active and discard.
C40_KnownActiveDisjoint == knownAddresses \cap activeAddresses = {}

\* add_many was given a valid address, not the sender's, that is in use, with
\* room left in the book: the address is still active and was not added.
C40_Witness ==
  /\ bookRet.op = "add_many" /\ bookRet.ok
  /\ Len(bookRet.msg) = 1
  /\ bookRet.msg[1].services /\ bookRet.msg[1].socket
  /\ bookRet.msg[1].addr # bookRet.sender
  /\ bookRet.msg[1].addr \in activeAddresses
  /\ bookRet.msg[1].addr \notin knownAddresses
  /\ knownAddresses # {}
  /\ Cardinality(knownAddresses) < AddressLimits(network)[2]
====
